---------------------------- MODULE Spec2Model ----------------------------
(***************************************************************************)
(* Model of the order pricing, validation and settlement logic of the      *)
(* fin-assist panel front-end, and of the three-step order form            *)
(* (details, payment, summary) with its asynchronous submission.           *)
(*                                                                         *)
(* Money is modelled in integer minor units.  Where the code divides by    *)
(* 100 (percentage charges) the operator returns the value in hundredths   *)
(* of a minor unit and says so, so that the arithmetic stays exact.        *)
(***************************************************************************)
EXTENDS Integers, Sequences, FiniteSets, TLC

VARIABLES
    \* ---- SingleEntityDetails.tsx: settlement of an entity's orders ----
    entityOrders,   \* entity.orders: sequence of orders
    payAmount,      \* the amount handleAddPayment was last called with
    toPayOrders,    \* the allocations handleAddPayment built
    settlePc,       \* "idle" | "posting" | "failed" | "reloaded"
    \* ---- the pricing functions applied to one cart ----
    pForm,          \* which form's functions: "CreateOrder" | "BuyOrderForm"
    pCart,          \* the cart handed to the calculations memo
    pCalc,          \* the memo's result, <<>> before it ran
    \* ---- validateProductQuantities applied to one input ----
    sType,          \* order type
    sProducts,      \* the products prop (reference data)
    sAdded,         \* addedProducts: the line items
    sResult,        \* {isValid, errors}, <<>> before it ran
    \* ---- validateAccountBalances applied to one input ----
    bType,          \* order type
    bAccounts,      \* the accounts prop (reference data)
    bPayments,      \* the payments
    bResult,        \* {isValid, errors}, <<>> before it ran
    \* ---- the order form: create-order.tsx (CreateOrder), BuyOrderForm.tsx ----
    formName,       \* which component is mounted: "CreateOrder" | "BuyOrderForm"
    orderType,      \* the type prop: "BUY" | "SELL"
    formState,      \* the cart
    currentStep,    \* "details" | "payment" | "summary"
    error,          \* the form-level error, NoError for null
    loading,        \* a submission is in flight
    isAccountSelectionActive,   \* BuyOrderForm: the vendor account dialog is open
    selectedVendorAccount,      \* BuyOrderForm: the chosen account id, "" for null
    prevSubTotalRef,            \* CreateOrder: the ref of the mounted CalculationSelector
    pending,        \* the handleSubmit calls suspended at an await
    last,           \* the handler that ran last, with what a finished submission left
    \* ---- the FIFO estimates of a SELL line: product-details.tsx, legacy ProductDetails ----
    fQueue,         \* variant.stock_fifo_queue, oldest lot first
    fQuantity,      \* item.quantity of the line
    fPrice,         \* <<getVariantEstimatedPrice>> in ten-thousandths, <<>> before it ran
    fBreakdown,     \* <<the breakdown of the tooltip>>, <<>> before it ran
    fValidation,    \* validateProductQuantities for the line, <<>> before it ran
    lLoaded,        \* legacy: variant.items (purchase records) as loaded
    lItems,         \* legacy: variant.items as they are now
    lStock,         \* legacy: variant.stock
    lSelected,      \* legacy: selectedOrders of the last render, <<>> before it
    dSaved,         \* localStorage item under CART-<orgId>-<type>
    dMounted,       \* whether the CreateOrder component is mounted
    dCart,          \* formState of the mounted component, <<>> when unmounted
    dDefault,       \* the defaultEntity prop
    dType,          \* the type prop
    dPending,       \* <<the cart being submitted>>, <<>> when no request is in flight
    dLast,          \* the last operation on the draft
    rSelected,      \* role editor: formData.permissions as a set
    rLast           \* role editor: the last toggle

settleVars == <<entityOrders, payAmount, toPayOrders, settlePc>>
pricingVars == <<pForm, pCart, pCalc>>
stockVars == <<sType, sProducts, sAdded, sResult>>
balanceVars == <<bType, bAccounts, bPayments, bResult>>
formVars == <<formName, orderType, formState, currentStep, error, loading,
              isAccountSelectionActive, selectedVendorAccount, prevSubTotalRef,
              pending, last>>

fifoVars == <<fQueue, fQuantity, fPrice, fBreakdown, fValidation,
              lLoaded, lItems, lStock, lSelected>>

draftVars == <<dSaved, dMounted, dCart, dDefault, dType, dPending, dLast>>
roleVars == <<rSelected, rLast>>
extraVars == <<draftVars, roleVars>>

vars == <<settleVars, pricingVars, stockVars, balanceVars, formVars, fifoVars, extraVars>>

DraftOff ==
    /\ dSaved = <<>> /\ dMounted = FALSE /\ dCart = <<>> /\ dDefault = ""
    /\ dType = "SELL" /\ dPending = <<>> /\ dLast = <<>>
RoleOff == rSelected = {} /\ rLast = <<>>
ExtraOff == DraftOff /\ RoleOff

-----------------------------------------------------------------------------
(* Generic helpers                                                          *)

Min(a, b) == IF a <= b THEN a ELSE b

Max(a, b) == IF a >= b THEN a ELSE b

RECURSIVE SeqSum(_)
SeqSum(s) == IF s = <<>> THEN 0 ELSE Head(s) + SeqSum(Tail(s))

\* all sequences over S of length 0..n
SeqsUpTo(S, n) == UNION {[1..k -> S] : k \in 0..n}

\* all sequences over S of length 1..n
SeqsFrom1(S, n) == UNION {[1..k -> S] : k \in 1..n}

\* the parts of the state a specification does not use stay at these values
PricingOff == pForm = "CreateOrder" /\ pCart = <<>> /\ pCalc = <<>>
StockOff == sType = "SELL" /\ sProducts = <<>> /\ sAdded = <<>> /\ sResult = <<>>
BalanceOff == bType = "BUY" /\ bAccounts = <<>> /\ bPayments = <<>> /\ bResult = <<>>
FifoOff ==
    /\ fQueue = <<>> /\ fQuantity = 0 /\ fPrice = <<>> /\ fBreakdown = <<>>
    /\ fValidation = <<>> /\ lLoaded = <<>> /\ lItems = <<>> /\ lStock = 0 /\ lSelected = <<>>
FormOff ==
    /\ formName = "CreateOrder" /\ orderType = "BUY" /\ formState = <<>> /\ currentStep = "details"
    /\ error = "" /\ loading = FALSE /\ isAccountSelectionActive = FALSE
    /\ selectedVendorAccount = "" /\ prevSubTotalRef = 0 /\ pending = <<>> /\ last = <<>>

-----------------------------------------------------------------------------
(* Settlement reducer: SingleEntityDetails.tsx, handleAddPayment            *)

MaxOrders == 2

OrderTypes == {"BUY", "SELL"}
OrderDates == {1, 2}
OrderTotals == {1, 3}
OrderPaid == {0, 1, 2}
PayAmounts == {0, 1, 2, 3, 4, 5}

\* an order as the settlement code reads it; the id is filled in from the position
OrderFields == [type : OrderTypes, createdAt : OrderDates,
                totalAmount : OrderTotals, paidTillNow : OrderPaid]

WithIds(s) == [i \in DOMAIN s |-> [id |-> i, type |-> s[i].type, createdAt |-> s[i].createdAt,
                                   totalAmount |-> s[i].totalAmount,
                                   paidTillNow |-> s[i].paidTillNow]]

calculateOrderPaidAmount(order) == order.paidTillNow

calculateOrderRemaining(order) == order.totalAmount - calculateOrderPaidAmount(order)

\* the comparator handed to sort(): negative, zero or positive
CompareOrdersByDateOnly(a, b) ==
    IF a.createdAt < b.createdAt THEN -1 ELSE IF a.createdAt > b.createdAt THEN 1 ELSE 0

CompareOrders(a, b) ==
    IF a.type = "BUY" /\ b.type # "BUY" THEN -1
    ELSE IF b.type = "BUY" /\ a.type # "BUY" THEN 1
    ELSE IF a.createdAt < b.createdAt THEN -1
    ELSE IF a.createdAt > b.createdAt THEN 1
    ELSE 0

RECURSIVE InsertOrder(_, _)
InsertOrder(o, t) ==
    IF t = <<>> THEN <<o>>
    ELSE IF CompareOrders(o, Head(t)) <= 0 THEN <<o>> \o t
    ELSE <<Head(t)>> \o InsertOrder(o, Tail(t))

RECURSIVE SortOrders(_)
\* Array.prototype.sort with CompareOrders: a stable sort
SortOrders(s) == IF s = <<>> THEN <<>> ELSE InsertOrder(Head(s), SortOrders(Tail(s)))

RECURSIVE FilterRemaining(_)
FilterRemaining(s) ==
    IF s = <<>> THEN <<>>
    ELSE IF calculateOrderRemaining(Head(s)) > 0
         THEN <<Head(s)>> \o FilterRemaining(Tail(s))
         ELSE FilterRemaining(Tail(s))

ordersToProcess(orders) == SortOrders(FilterRemaining(orders))

TakeAmountNoCap(remainingAmount, toPay) == toPay

\* const remaining = Math.min(remainingAmount, toPay)
TakeAmount(remainingAmount, toPay) == Min(remainingAmount, toPay)

RECURSIVE AllocateLoop(_, _, _)
\* the for-loop over ordersToProcess, with the running remainingAmount
AllocateLoop(orders, remainingAmount, accountId) ==
    IF orders = <<>> \/ remainingAmount <= 0 THEN <<>>
    ELSE LET order == Head(orders)
             toPay == calculateOrderRemaining(order)
         IN  IF toPay <= 0 THEN AllocateLoop(Tail(orders), remainingAmount, accountId)
             ELSE LET remaining == TakeAmount(remainingAmount, toPay)
                      rest == AllocateLoop(Tail(orders), remainingAmount - remaining, accountId)
                  IN  IF remaining > 0
                      THEN <<[orderId |-> order.id, accountId |-> accountId,
                              amount |-> remaining]>> \o rest
                      ELSE rest

SettleIdle ==
    /\ payAmount = 0
    /\ toPayOrders = <<>>
    /\ settlePc = "idle"

SettleInit ==
    /\ entityOrders \in {WithIds(s) : s \in SeqsUpTo(OrderFields, MaxOrders)}
    /\ SettleIdle
    /\ PricingOff /\ StockOff /\ BalanceOff /\ FormOff /\ FifoOff /\ ExtraOff

\* handleAddPayment(amount, accountId) up to its await
HandleAddPayment(amount, accountId) ==
    /\ settlePc = "idle"
    /\ amount > 0
    /\ payAmount' = amount
    /\ toPayOrders' = AllocateLoop(ordersToProcess(entityOrders), amount, accountId)
    /\ settlePc' = "posting"
    /\ UNCHANGED <<entityOrders, pricingVars, stockVars, balanceVars, formVars, fifoVars, extraVars>>

\* Promise.all rejects: the error is logged, nothing else happens
PostsRejected ==
    /\ settlePc = "posting"
    /\ settlePc' = "failed"
    /\ UNCHANGED <<entityOrders, payAmount, toPayOrders, pricingVars, stockVars, balanceVars, formVars, fifoVars, extraVars>>

\* Promise.all resolves: window.location.reload()
PostsResolved ==
    /\ settlePc = "posting"
    /\ settlePc' = "reloaded"
    /\ UNCHANGED <<entityOrders, payAmount, toPayOrders, pricingVars, stockVars, balanceVars, formVars, fifoVars, extraVars>>

SettleNext ==
    \/ \E amount \in PayAmounts : HandleAddPayment(amount, "a1")
    \/ PostsRejected
    \/ PostsResolved

SpecSettle == SettleInit /\ [][SettleNext]_vars

(* ---- properties of the settlement reducer ---- *)

RECURSIVE AmountSum(_)
AmountSum(allocs) == IF allocs = <<>> THEN 0 ELSE Head(allocs).amount + AmountSum(Tail(allocs))

RECURSIVE AllocatedTo(_, _)
AllocatedTo(allocs, id) ==
    IF allocs = <<>> THEN 0
    ELSE (IF Head(allocs).orderId = id THEN Head(allocs).amount ELSE 0)
         + AllocatedTo(Tail(allocs), id)

OrderRemaining(i) == entityOrders[i].totalAmount - entityOrders[i].paidTillNow

Outstanding == {i \in DOMAIN entityOrders : OrderRemaining(i) > 0}

\* i is settled before j: BUY before non-BUY, then older first, then list position
SettledBefore(i, j) ==
    LET bi == entityOrders[i].type = "BUY"
        bj == entityOrders[j].type = "BUY"
    IN  \/ bi /\ ~bj
        \/ /\ bi = bj
           /\ \/ entityOrders[i].createdAt < entityOrders[j].createdAt
              \/ entityOrders[i].createdAt = entityOrders[j].createdAt /\ i < j

HandlerRan == settlePc # "idle"

\* C1: the allocations sum to at most the requested amount, to exactly that amount
\* unless every outstanding order is fully allocated, and none exceeds its order's
\* remaining (totalAmount - paidTillNow).
C1_SettlementConservation ==
    HandlerRan =>
        /\ AmountSum(toPayOrders) <= payAmount
        /\ \/ AmountSum(toPayOrders) = payAmount
           \/ \A i \in Outstanding : AllocatedTo(toPayOrders, i) = OrderRemaining(i)
        /\ \A k \in DOMAIN toPayOrders :
              /\ toPayOrders[k].orderId \in DOMAIN entityOrders
              /\ toPayOrders[k].amount <= OrderRemaining(toPayOrders[k].orderId)

\* a payment that covers one order fully and the next one only in part
C1_Witness ==
    /\ settlePc = "posting"
    /\ Len(toPayOrders) = 2
    /\ AmountSum(toPayOrders) = payAmount
    /\ toPayOrders[2].amount < OrderRemaining(toPayOrders[2].orderId)
    /\ toPayOrders[1].amount = OrderRemaining(toPayOrders[1].orderId)

\* C2: only outstanding orders are paid, BUY orders before non-BUY orders and older
\* before newer; every outstanding order settled before an allocated one gets its
\* full remaining, and nothing is allocated after a partially paid order.
C2_SettlementPriority ==
    HandlerRan =>
        /\ \A k \in DOMAIN toPayOrders : toPayOrders[k].orderId \in Outstanding
        /\ \A k, l \in DOMAIN toPayOrders :
              k < l => SettledBefore(toPayOrders[k].orderId, toPayOrders[l].orderId)
        /\ \A i, j \in Outstanding :
              SettledBefore(i, j) /\ AllocatedTo(toPayOrders, j) > 0
                  => AllocatedTo(toPayOrders, i) = OrderRemaining(i)
        /\ \A i, j \in Outstanding :
              /\ SettledBefore(i, j)
              /\ AllocatedTo(toPayOrders, i) < OrderRemaining(i)
              => AllocatedTo(toPayOrders, j) = 0

\* a SELL order listed first is paid after a later-listed BUY order: the BUY order
\* in full, the SELL order in part (remaining 1 and 3, payment 3 gives 1 and 2)
C2_Witness ==
    /\ settlePc = "posting"
    /\ Len(entityOrders) >= 2
    /\ entityOrders[1].type = "SELL" /\ entityOrders[2].type = "BUY"
    /\ OrderRemaining(2) = 1 /\ OrderRemaining(1) = 3
    /\ payAmount = 3
    /\ toPayOrders = <<[orderId |-> 2, accountId |-> "a1", amount |-> 1],
                       [orderId |-> 1, accountId |-> "a1", amount |-> 2]>>

-----------------------------------------------------------------------------
(* Order pricing engine: forms/order/types.ts and forms/BuyOrderForm.tsx    *)
(*                                                                          *)
(* Amounts entered in the cart are whole minor units.  A percentage charge  *)
(* is (base * percentage) / 100, so every result that may contain one is    *)
(* kept in hundredths: chargeAmount, vendorCharges, grandTotal and          *)
(* remainingAmount below are 100 times the code's values.                   *)

Forms == {"CreateOrder", "BuyOrderForm"}

Hundredths(x) == 100 * x

\* (base * percentage) / 100, in hundredths
PercentOf(base, percentage) == base * percentage

RECURSIVE calculateSubTotal(_)
calculateSubTotal(products) ==
    IF products = <<>> THEN 0
    ELSE Head(products).rate * Head(products).quantity + calculateSubTotal(Tail(products))

RECURSIVE calculateChargeAmount(_, _, _)
\* charges paid by the entity, in hundredths
calculateChargeAmount(subTotal, discount, charges) ==
    IF charges = <<>> THEN 0
    ELSE LET charge == Head(charges)
             baseAmount == subTotal - discount
             chargeAmount == IF charge.type = "percentage"
                             THEN PercentOf(baseAmount, charge.percentage)
                             ELSE Hundredths(charge.amount)
         IN  (IF ~charge.isPaidByBusiness THEN chargeAmount ELSE 0)
             + calculateChargeAmount(subTotal, discount, Tail(charges))

RECURSIVE calculateVendorCharges(_, _)
\* charges paid by the business, in hundredths
calculateVendorCharges(subTotal, charges) ==
    IF charges = <<>> THEN 0
    ELSE LET charge == Head(charges)
             chargeAmount == IF charge.type = "percentage"
                             THEN PercentOf(subTotal, charge.percentage)
                             ELSE Hundredths(charge.amount)
         IN  (IF charge.isPaidByBusiness THEN chargeAmount ELSE 0)
             + calculateVendorCharges(subTotal, Tail(charges))

\* types.ts: calculateGrandTotal(subTotal, discount, tax, charges), in hundredths
calculateGrandTotal(subTotal, discount, tax, charges) ==
    LET chargeAmount == calculateChargeAmount(subTotal, discount, charges)
        total == Hundredths(subTotal - discount + tax) + chargeAmount
    IN  Max(total, 0)

\* BuyOrderForm.tsx: calculateGrandTotal(subTotal, discount, charges), in hundredths
calculateGrandTotalBuyForm(subTotal, discount, charges) ==
    LET chargeAmount == calculateChargeAmount(subTotal, discount, charges)
        total == Hundredths(subTotal - discount) + chargeAmount
    IN  Max(total, 0)

RECURSIVE calculateTotalPaid(_)
calculateTotalPaid(payments) ==
    IF payments = <<>> THEN 0
    ELSE Head(payments).amount + calculateTotalPaid(Tail(payments))

calculateRemainingAmount(grandTotal, totalPaid) == Max(grandTotal - totalPaid, 0)

\* the calculations memo of the form `form` for the cart `cart`
Calculations(form, cart) ==
    LET subTotal == calculateSubTotal(cart.products)
        grandTotal == IF form = "CreateOrder"
                      THEN calculateGrandTotal(subTotal, cart.discount, cart.tax, cart.charges)
                      ELSE calculateGrandTotalBuyForm(subTotal, cart.discount, cart.charges)
        totalPaid == calculateTotalPaid(cart.payments)
    IN  [subTotal |-> subTotal,
         chargeAmount |-> calculateChargeAmount(subTotal, cart.discount, cart.charges),
         vendorCharges |-> calculateVendorCharges(subTotal, cart.charges),
         grandTotal |-> grandTotal,
         totalPaid |-> totalPaid,
         remainingAmount |-> calculateRemainingAmount(grandTotal, Hundredths(totalPaid))]

MaxPricingItems == 2
MaxPricingCharges == 2

PricingItems == [productId : {"p1"}, variantId : {"v1"}, rate : {0, 3}, quantity : {1, 2}]
PricingCharges == [type : {"fixed", "percentage"}, amount : {0, 4}, percentage : {0, 5},
                   isPaidByBusiness : BOOLEAN]
PricingPayments == {<<>>, <<[accountId |-> "a1", amount |-> 2]>>}
PricingCarts == [products : SeqsFrom1(PricingItems, MaxPricingItems),
                 discount : {0, 7},
                 tax : {0, 1},
                 charges : SeqsUpTo(PricingCharges, MaxPricingCharges),
                 payments : PricingPayments]

\* a cart of either form; the BuyOrderForm cart gets a non-zero tax from a saved
\* draft (createInitialFormState: tax: parsed.tax || 0), the key being shared
PricingInit ==
    /\ pForm \in Forms
    /\ pCart \in PricingCarts
    /\ pCalc = <<>>
    /\ entityOrders = <<>> /\ SettleIdle
    /\ StockOff /\ BalanceOff /\ FormOff /\ FifoOff /\ ExtraOff

\* a render: the calculations memo runs
ComputeCalculations ==
    /\ pCalc = <<>>
    /\ pCalc' = Calculations(pForm, pCart)
    /\ UNCHANGED <<pForm, pCart, settleVars, stockVars, balanceVars, formVars, fifoVars, extraVars>>

PricingNext == ComputeCalculations

SpecPricing == PricingInit /\ [][PricingNext]_vars

(* ---- properties of the pricing engine ---- *)

LineTotal(cart) ==
    LET P == cart.products
        f[i \in 0..Len(P)] == IF i = 0 THEN 0 ELSE f[i - 1] + P[i].quantity * P[i].rate
    IN  f[Len(P)]

\* the entity-paid charge total in hundredths, summed charge by charge
EntityChargeTotal(cart) ==
    LET C == cart.charges
        base == LineTotal(cart) - cart.discount
        one(c) == IF c.isPaidByBusiness THEN 0
                  ELSE IF c.type = "percentage" THEN base * c.percentage ELSE 100 * c.amount
        f[i \in 0..Len(C)] == IF i = 0 THEN 0 ELSE f[i - 1] + one(C[i])
    IN  f[Len(C)]

ExpectedGrandTotal(cart) ==
    LET t == 100 * (LineTotal(cart) - cart.discount + cart.tax) + EntityChargeTotal(cart)
    IN  IF t > 0 THEN t ELSE 0

\* C3: the grand total the form uses is max(subTotal - discount + tax + chargeAmount, 0),
\* chargeAmount summing the charges not absorbed by the business; it is never negative.
C3_GrandTotal ==
    pCalc # <<>> =>
        /\ pCalc.grandTotal = ExpectedGrandTotal(pCart)
        /\ pCalc.grandTotal >= 0

\* the same statement for the functions of forms/order (types.ts) alone
C3_GrandTotalCreateOrder ==
    (pCalc # <<>> /\ pForm = "CreateOrder") =>
        /\ pCalc.grandTotal = ExpectedGrandTotal(pCart)
        /\ pCalc.grandTotal >= 0

-----------------------------------------------------------------------------
(* Stock validation: forms/order/types.ts, validateProductQuantities        *)

\* what Map.get returns for a key that is not in the map
NoVariant == [id |-> "", name |-> "", price |-> 0, buyPrice |-> 0, stock_fifo_queue |-> <<>>]

RECURSIVE FlatVariants(_)
\* products.flatMap((p) => p.variants ?? [])
FlatVariants(products) ==
    IF products = <<>> THEN <<>> ELSE Head(products).variants \o FlatVariants(Tail(products))

RECURSIVE LastWithId(_, _)
\* new Map(entries).get(id): the last entry with the key wins
LastWithId(variants, id) ==
    IF variants = <<>> THEN NoVariant
    ELSE LET v == variants[Len(variants)]
         IN  IF v.id = id THEN v ELSE LastWithId(SubSeq(variants, 1, Len(variants) - 1), id)

variantMapGet(products, variantId) == LastWithId(FlatVariants(products), variantId)

\* NoVariant has the empty id, which no variant of the reference data has
IsVariant(variant) == variant.id # ""

RECURSIVE getVariantStock(_)
\* the reduce over stock_fifo_queue, given the queue
getVariantStock(queue) ==
    IF queue = <<>> THEN 0 ELSE Head(queue).availableStock + getVariantStock(Tail(queue))

StockExceededAtLimit(products, item) ==
    LET variant == variantMapGet(products, item.variantId)
    IN  IsVariant(variant) /\ item.quantity >= getVariantStock(variant.stock_fifo_queue)

\* if (variant && item.quantity > getVariantStock(variant))
StockExceeded(products, item) ==
    LET variant == variantMapGet(products, item.variantId)
    IN  IsVariant(variant) /\ item.quantity > getVariantStock(variant.stock_fifo_queue)

RECURSIVE StockErrors(_, _, _)
\* addedProducts.forEach((item, index) => ... errors.push(...)), from position `index`
StockErrors(products, addedProducts, index) ==
    IF index > Len(addedProducts) THEN <<>>
    ELSE LET item == addedProducts[index]
             variant == variantMapGet(products, item.variantId)
         IN  (IF StockExceeded(products, item)
              THEN <<[item |-> index, productId |-> item.productId, variant |-> variant.name,
                      quantity |-> item.quantity,
                      available |-> getVariantStock(variant.stock_fifo_queue)]>>
              ELSE <<>>)
             \o StockErrors(products, addedProducts, index + 1)

validateProductQuantities(type, products, addedProducts) ==
    IF type # "SELL" THEN [isValid |-> TRUE, errors |-> <<>>]
    ELSE LET errors == StockErrors(products, addedProducts, 1)
         IN  [isValid |-> Len(errors) = 0, errors |-> errors]

MaxLots == 2
MaxStockItems == 2

Lots == [availableStock : {0, 1, 2}, estimatedPrice : {10}]

\* one product with two variants; the first variant's lots are drawn, the second has none
StockCatalogue(queue) ==
    <<[id |-> "p1", name |-> "P1",
       variants |-> <<[id |-> "v1", name |-> "V1", price |-> 3, buyPrice |-> 2,
                       stock_fifo_queue |-> queue],
                      [id |-> "v2", name |-> "V2", price |-> 4, buyPrice |-> 3,
                       stock_fifo_queue |-> <<>>]>>]>>

\* line items: an empty slot has no product and no variant; "v9" is a variant the
\* reference data no longer has
StockItems ==
    [productId : {"p1"}, variantId : {"v1", "v2", "v9"}, rate : {3}, quantity : {1, 2, 3, 5}]
    \cup {[productId |-> "", variantId |-> "", rate |-> 0, quantity |-> 1]}

StockInit ==
    /\ sType \in {"BUY", "SELL"}
    /\ sProducts \in {StockCatalogue(q) : q \in SeqsUpTo(Lots, MaxLots)}
    /\ sAdded \in SeqsFrom1(StockItems, MaxStockItems)
    /\ sResult = <<>>
    /\ entityOrders = <<>> /\ SettleIdle
    /\ PricingOff /\ BalanceOff /\ FormOff /\ FifoOff /\ ExtraOff

ValidateStock ==
    /\ sResult = <<>>
    /\ sResult' = validateProductQuantities(sType, sProducts, sAdded)
    /\ UNCHANGED <<sType, sProducts, sAdded, settleVars, pricingVars, balanceVars, formVars, fifoVars, extraVars>>

StockNext == ValidateStock

SpecStock == StockInit /\ [][StockNext]_vars

(* ---- properties of stock validation ---- *)

\* the variants of the reference data with this id
VariantsNamed(products, id) ==
    {v \in UNION {{p.variants[k] : k \in DOMAIN p.variants} :
                    p \in {products[i] : i \in DOMAIN products}} : v.id = id}

AvailableStock(v) ==
    LET Q == v.stock_fifo_queue
        f[i \in 0..Len(Q)] == IF i = 0 THEN 0 ELSE f[i - 1] + Q[i].availableStock
    IN  f[Len(Q)]

OverStock(products, item) ==
    \E v \in VariantsNamed(products, item.variantId) : item.quantity > AvailableStock(v)

\* C4: for a SELL order, validateProductQuantities is invalid iff some line item asks
\* more than the available stock of its variant, and isValid iff the error list is empty.
C4_StockValidationSound ==
    (sResult # <<>> /\ sType = "SELL") =>
        /\ ~sResult.isValid <=> \E i \in DOMAIN sAdded : OverStock(sProducts, sAdded[i])
        /\ sResult.isValid <=> sResult.errors = <<>>

\* two line items, one within stock and one over it: exactly the second is reported
C4_Witness ==
    /\ sResult # <<>> /\ sType = "SELL"
    /\ Len(sAdded) = 2
    /\ ~OverStock(sProducts, sAdded[1]) /\ sAdded[1].variantId = "v1"
    /\ OverStock(sProducts, sAdded[2])
    /\ ~sResult.isValid
    /\ Len(sResult.errors) = 1 /\ sResult.errors[1].item = 2

-----------------------------------------------------------------------------
(* Balance validation: forms/order/types.ts, validateAccountBalances        *)

\* what Map.get returns for an account id that is not in the map
NoAccount == [id |-> "", name |-> "", type |-> "", balance |-> 0]

RECURSIVE accountMapGet(_, _)
\* new Map(accounts.map((acc) => [acc.id, acc])).get(id): the last entry wins
accountMapGet(accounts, id) ==
    IF accounts = <<>> THEN NoAccount
    ELSE LET acc == accounts[Len(accounts)]
         IN  IF acc.id = id THEN acc
             ELSE accountMapGet(SubSeq(accounts, 1, Len(accounts) - 1), id)

IsAccount(account) == account.id # ""

BalanceExceededAtLimit(accounts, payment) ==
    LET account == accountMapGet(accounts, payment.accountId)
    IN  IsAccount(account) /\ payment.amount >= account.balance

\* if (account && payment.amount > account.balance)
BalanceExceeded(accounts, payment) ==
    LET account == accountMapGet(accounts, payment.accountId)
    IN  IsAccount(account) /\ payment.amount > account.balance

RECURSIVE BalanceErrors(_, _, _)
\* payments.forEach((payment, index) => ... errors.push(...)), from position `index`
BalanceErrors(payments, accounts, index) ==
    IF index > Len(payments) THEN <<>>
    ELSE LET payment == payments[index]
             account == accountMapGet(accounts, payment.accountId)
         IN  (IF BalanceExceeded(accounts, payment)
              THEN <<[payment |-> index, account |-> account.name,
                      amount |-> payment.amount, balance |-> account.balance]>>
              ELSE <<>>)
             \o BalanceErrors(payments, accounts, index + 1)

validateAccountBalances(payments, accounts, type) ==
    IF type # "BUY" THEN [isValid |-> TRUE, errors |-> <<>>]
    ELSE LET errors == BalanceErrors(payments, accounts, 1)
         IN  [isValid |-> Len(errors) = 0, errors |-> errors]

MaxBalancePayments == 2

\* two accounts; the balance of the first is drawn
BalanceAccounts(balance) ==
    <<[id |-> "a1", name |-> "A1", type |-> "BANK", balance |-> balance],
      [id |-> "a2", name |-> "A2", type |-> "CASH_COUNTER", balance |-> 1]>>

\* "a9" is an account the reference data does not have
BalancePayments == [accountId : {"a1", "a2", "a9"}, amount : {0, 1, 2, 3}]

BalanceInit ==
    /\ bType \in {"BUY", "SELL"}
    /\ bAccounts \in {BalanceAccounts(b) : b \in {0, 2}}
    /\ bPayments \in SeqsUpTo(BalancePayments, MaxBalancePayments)
    /\ bResult = <<>>
    /\ entityOrders = <<>> /\ SettleIdle
    /\ PricingOff /\ StockOff /\ FormOff /\ FifoOff /\ ExtraOff

ValidateBalances ==
    /\ bResult = <<>>
    /\ bResult' = validateAccountBalances(bPayments, bAccounts, bType)
    /\ UNCHANGED <<bType, bAccounts, bPayments, settleVars, pricingVars, stockVars, formVars, fifoVars, extraVars>>

BalanceNext == ValidateBalances

SpecBalance == BalanceInit /\ [][BalanceNext]_vars

(* ---- properties of balance validation ---- *)

OverBalance(accounts, payment) ==
    \E i \in DOMAIN accounts :
        accounts[i].id = payment.accountId /\ payment.amount > accounts[i].balance

\* C5: for a BUY order, validateAccountBalances is invalid iff some payment's amount is
\* greater than the balance of its account.
C5_BalanceValidationSound ==
    (bResult # <<>> /\ bType = "BUY") =>
        (~bResult.isValid <=> \E k \in DOMAIN bPayments : OverBalance(bAccounts, bPayments[k]))

\* two payments, the first within its account's balance and the second over it
C5_Witness ==
    /\ bResult # <<>> /\ bType = "BUY"
    /\ Len(bPayments) = 2
    /\ bPayments[1].accountId = "a1" /\ ~OverBalance(bAccounts, bPayments[1])
    /\ OverBalance(bAccounts, bPayments[2])
    /\ ~bResult.isValid
    /\ Len(bResult.errors) = 1 /\ bResult.errors[1].payment = 2

-----------------------------------------------------------------------------
(* The order form: forms/order/create-order.tsx (CreateOrder) and           *)
(* forms/BuyOrderForm.tsx (BuyOrderForm), mounted without a saved draft and *)
(* without a default entity.  The cart carries the fields its calculations, *)
(* guards and reset read; description, isPublic, orderDate and the          *)
(* percentage mirrors of fixed amounts are not carried.                     *)

MaxFormItems == 2
MaxFormCharges == 1
MaxQuantity == 2
MaxInFlight == 2

NoError == ""
NoEntity == ""
NoAccountId == ""

ErrNoProduct == "Please add at least one product."
ErrStock == "Stock validation failed"
ErrEntity == "Select Entity for unpaid order."
ErrBalance == "Insufficient balance"
ErrVendorBalance == "Insufficient balance for vendor charges"
ErrSubmit == "Failed to create order. Please try again."

\* the products prop: one product whose variant has 1 unit in stock
FormProducts ==
    <<[id |-> "p1", name |-> "P1",
       variants |-> <<[id |-> "v1", name |-> "V1", price |-> 300, buyPrice |-> 200,
                       stock_fifo_queue |-> <<[availableStock |-> 1, estimatedPrice |-> 10]>>]>>]>>

\* the accounts prop
FormAccounts ==
    <<[id |-> "a1", name |-> "A1", type |-> "BANK", balance |-> 200],
      [id |-> "a2", name |-> "A2", type |-> "CASH_COUNTER", balance |-> 0]>>

FormEntities == {"e1"}

\* what the user enters; the charges entered are fixed amounts, and the rate and the
\* discount are left as the form set them
QuantityInputs == 1..MaxQuantity
TaxRates == {0, 13}
ChargeUpdates == {[amount |-> 1], [isPaidByBusiness |-> TRUE], [isPaidByBusiness |-> FALSE]}
LegacyCharges == [label : {"freight"}, type : {"fixed"}, amount : {0, 1}, percentage : {0},
                  bearedByEntity : BOOLEAN]
PaymentLists == {<<>>, <<[accountId |-> "a1", amount |-> 200]>>,
                 <<[accountId |-> "a1", amount |-> 300]>>}

EmptySlot == [productId |-> "", variantId |-> "", rate |-> 0, quantity |-> 1]

\* createInitialFormState, the branch without a saved draft
createInitialFormState(form, defaultEntity) ==
    [entity |-> defaultEntity,
     products |-> <<EmptySlot>>,
     discount |-> 0,
     tax |-> 0,
     taxType |-> IF form = "CreateOrder" THEN "percentage" ELSE "none",
     taxPercentage |-> 0,
     charges |-> <<>>,
     payments |-> <<>>]

\* resetState of resetForm
resetState(form) ==
    [entity |-> NoEntity,
     products |-> <<EmptySlot>>,
     discount |-> 0,
     tax |-> 0,
     taxType |-> IF form = "CreateOrder" THEN "fixed" ELSE "none",
     taxPercentage |-> 0,
     charges |-> <<>>,
     payments |-> <<>>]

\* { ...item, ...updates }
Merge(item, updates) ==
    [k \in DOMAIN item |-> IF k \in DOMAIN updates THEN updates[k] ELSE item[k]]

updateProductAtIndex(addedProducts, index, updates) ==
    [i \in 1..Len(addedProducts) |->
        IF i = index THEN Merge(addedProducts[i], updates) ELSE addedProducts[i]]

RemoveAt(s, index) == SubSeq(s, 1, index - 1) \o SubSeq(s, index + 1, Len(s))

RECURSIVE FindIndex(_, _)
\* addedProducts.findIndex((p) => !p.productId), 0 for -1, from position `index`
FindIndex(addedProducts, index) ==
    IF index > Len(addedProducts) THEN 0
    ELSE IF addedProducts[index].productId = "" THEN index
    ELSE FindIndex(addedProducts, index + 1)

RECURSIVE FindById(_, _, _)
\* list.find((x) => x.id === id), `none` for undefined
FindById(list, id, none) ==
    IF list = <<>> THEN none
    ELSE IF Head(list).id = id THEN Head(list) ELSE FindById(Tail(list), id, none)

NoProduct == [id |-> "", name |-> "", variants |-> <<>>]

\* type === "BUY" ? variant.buyPrice : variant.price
PriceFor(orderKind, variant) == IF orderKind = "BUY" THEN variant.buyPrice ELSE variant.price

handleAddEmptySlot(addedProducts) == Append(addedProducts, EmptySlot)

handleRemoveProduct(addedProducts, index) ==
    IF Len(addedProducts) = 1 THEN <<EmptySlot>> ELSE RemoveAt(addedProducts, index)

\* handleGlobalSelect(product, variant), given the ids
handleGlobalSelect(orderKind, addedProducts, productId, variantId) ==
    LET product == FindById(FormProducts, productId, NoProduct)
        myVar == FindById(product.variants, variantId, NoVariant)
        newProduct == [productId |-> product.id, variantId |-> myVar.id, quantity |-> 1,
                       rate |-> PriceFor(orderKind, myVar)]
        emptySlotIndex == FindIndex(addedProducts, 1)
    IN  IF emptySlotIndex # 0
        THEN updateProductAtIndex(addedProducts, emptySlotIndex, newProduct)
        ELSE Append(addedProducts, newProduct)

handleProductSelect(orderKind, addedProducts, index, productId) ==
    LET selectedProduct == FindById(FormProducts, productId, NoProduct)
    IN  IF selectedProduct.variants = <<>> THEN addedProducts
        ELSE LET firstVariant == selectedProduct.variants[1]
             IN  updateProductAtIndex(addedProducts, index,
                     [productId |-> productId, variantId |-> firstVariant.id,
                      rate |-> PriceFor(orderKind, firstVariant)])

handleVariantSelect(orderKind, addedProducts, index, variantId) ==
    LET product == FindById(FormProducts, addedProducts[index].productId, NoProduct)
        selectedVariant == FindById(product.variants, variantId, NoVariant)
    IN  IF ~IsVariant(selectedVariant) THEN addedProducts
        ELSE updateProductAtIndex(addedProducts, index,
                 [variantId |-> variantId, rate |-> PriceFor(orderKind, selectedVariant)])

handleRateChange(addedProducts, index, newRate) ==
    updateProductAtIndex(addedProducts, index, [rate |-> Max(0, newRate)])

handleQuantityChange(orderKind, addedProducts, index, newQuantity) ==
    LET variant == variantMapGet(FormProducts, addedProducts[index].variantId)
        stock == getVariantStock(variant.stock_fifo_queue)
        atLeast1 == Max(1, newQuantity)
    IN  IF orderKind = "SELL" /\ IsVariant(variant)
        THEN updateProductAtIndex(addedProducts, index,
                 [quantity |-> Min(atLeast1, stock), rate |-> variant.price])
        ELSE updateProductAtIndex(addedProducts, index, [quantity |-> atLeast1])

\* calculation-selector.tsx
handleAddCharge(charges) ==
    Append(charges, [name |-> "", type |-> "fixed", amount |-> 0, percentage |-> 0,
                     isPaidByBusiness |-> FALSE])

\* the charge is named by its position, ids being unique
handleChargeChange(charges, index, updatedFields) ==
    [i \in 1..Len(charges) |->
        IF i = index THEN Merge(charges[i], updatedFields) ELSE charges[i]]

handleRemoveCharge(charges, index) == RemoveAt(charges, index)

\* BuyOrderForm.tsx: the adapter from the legacy charge format
convertLegacyChargesToLocal(legacyCharges) ==
    [i \in 1..Len(legacyCharges) |->
        [name |-> legacyCharges[i].label, type |-> legacyCharges[i].type,
         amount |-> legacyCharges[i].amount,
         percentage |-> legacyCharges[i].percentage,
         isPaidByBusiness |-> ~legacyCharges[i].bearedByEntity]]

\* (subTotal * val) / 100; the prices of FormProducts make it whole
TaxOf(subTotal, val) == (subTotal * val) \div 100

\* the effect of CalculationSelector that follows the subtotal, for the fields the
\* cart carries: <<cart, prevSubTotalRef>> after it ran
SyncEffect(cart, ref) ==
    LET subTotal == calculateSubTotal(cart.products)
    IN  IF ref # subTotal /\ subTotal > 0
        THEN <<IF cart.taxType = "percentage" /\ cart.taxPercentage > 0
               THEN [cart EXCEPT !.tax = TaxOf(subTotal, cart.taxPercentage)]
               ELSE cart,
               subTotal>>
        ELSE <<cart, ref>>

validateOrderDetailsNoStock(orderKind, cart) ==
    LET validProducts == SelectSeq(cart.products,
                                   LAMBDA p : p.productId # "" /\ p.variantId # "")
    IN  IF Len(validProducts) = 0 THEN ErrNoProduct ELSE NoError

\* NoError for null
validateOrderDetails(orderKind, cart) ==
    LET validProducts == SelectSeq(cart.products,
                                   LAMBDA p : p.productId # "" /\ p.variantId # "")
    IN  IF Len(validProducts) = 0 THEN ErrNoProduct
        ELSE IF orderKind = "SELL"
                /\ ~validateProductQuantities(orderKind, FormProducts, cart.products).isValid
             THEN ErrStock
        ELSE NoError

validatePaymentDetailsNoEntity(form, orderKind, cart) ==
    IF orderKind = "BUY"
       /\ ~validateAccountBalances(cart.payments, FormAccounts, orderKind).isValid
    THEN ErrBalance
    ELSE NoError

validatePaymentDetails(form, orderKind, cart) ==
    IF cart.entity = NoEntity /\ Calculations(form, cart).remainingAmount > 0 THEN ErrEntity
    ELSE IF orderKind = "BUY"
            /\ ~validateAccountBalances(cart.payments, FormAccounts, orderKind).isValid
         THEN ErrBalance
    ELSE NoError

\* BuyOrderForm.tsx; vendorCharges is in hundredths
validateSubmission(orderKind, vendorCharges, vendorAccount) ==
    IF orderKind = "BUY" /\ vendorCharges > 0
    THEN IF vendorAccount = NoAccountId THEN "Please select an account for vendor charges."
         ELSE IF Hundredths(accountMapGet(FormAccounts, vendorAccount).balance) < vendorCharges
              THEN ErrVendorBalance
         ELSE NoError
    ELSE NoError

\* ---- the payload of a submission ----

\* entity.isDefault of the entities of the model: the walk-in customer is the default
isDefault(entity) == entity = "walkin"

RECURSIVE FindByType(_, _)
\* accounts.find((acc) => acc.type === type), NoAccount for undefined
FindByType(accounts, type) ==
    IF accounts = <<>> THEN NoAccount
    ELSE IF Head(accounts).type = type THEN Head(accounts) ELSE FindByType(Tail(accounts), type)

\* the filter of the charges that go into the payload of a submission
PayloadChargeAny(charge) == charge.amount > 0

PayloadCharge(charge) == ~charge.isPaidByBusiness /\ charge.amount > 0

\* the test of the cash counter branch of finalPayments
CashCounterBranch(entity, orderKind, accounts) ==
    isDefault(entity) /\ orderKind = "SELL" /\ IsAccount(FindByType(accounts, "CASH_COUNTER"))

\* convertToPayload of types.ts (CreateOrder) and its copy in BuyOrderForm.tsx, which
\* calls the three-argument calculateGrandTotal; amounts of payments in hundredths,
\* undefined charges as the empty list
convertToPayload(form, cart, orderKind, accounts) ==
    LET validProducts == SelectSeq(cart.products,
                                   LAMBDA p : p.productId # "" /\ p.variantId # "")
        subTotal == calculateSubTotal(validProducts)
        grandTotal == IF form = "CreateOrder"
                      THEN calculateGrandTotal(subTotal, cart.discount, cart.tax, cart.charges)
                      ELSE calculateGrandTotalBuyForm(subTotal, cart.discount, cart.charges)
        finalPayments ==
            IF CashCounterBranch(cart.entity, orderKind, accounts)
            THEN <<[accountId |-> FindByType(accounts, "CASH_COUNTER").id,
                    amount |-> grandTotal]>>
            ELSE [i \in 1..Len(cart.payments) |->
                     [accountId |-> cart.payments[i].accountId,
                      amount |-> Hundredths(cart.payments[i].amount)]]
        kept == SelectSeq(cart.charges, PayloadCharge)
        entityCharges == [i \in 1..Len(kept) |->
                             [name |-> kept[i].name, amount |-> kept[i].amount,
                              isPaidByBusiness |-> FALSE]]
    IN  [type |-> orderKind,
         entityId |-> cart.entity,
         products |-> [i \in 1..Len(validProducts) |->
                          [variantId |-> validProducts[i].variantId,
                           quantity |-> validProducts[i].quantity,
                           rate |-> validProducts[i].rate]],
         payments |-> finalPayments,
         discount |-> cart.discount,
         tax |-> cart.tax,
         charges |-> entityCharges]

\* ---- the handlers, as steps of the mounted form ----

pureVars == <<settleVars, pricingVars, stockVars, balanceVars, fifoVars, extraVars>>

\* a submission suspended at an await: what its closure holds, whether onSubmit has
\* resolved for it, and the cart it started from and the payload it sent for as long
\* as the user has not acted since
Submission(cart, vendorCharges, vendorAccount) ==
    [phase |-> "onSubmit", vendorCharges |-> vendorCharges, vendorAccount |-> vendorAccount,
     created |-> FALSE, touched |-> FALSE, cart |-> cart,
     payload |-> convertToPayload(formName, cart, orderType, FormAccounts)]

Touched(inFlight) ==
    [i \in 1..Len(inFlight) |->
        [inFlight[i] EXCEPT !.touched = TRUE, !.cart = <<>>, !.payload = <<>>]]

\* the Dialog of the vendor account selection is modal
PageEnabled == ~isAccountSelectionActive

\* every step of the user; `last` names the two Continue handlers, the reset and
\* the dialog, and calls everything else an edit
UserStep(op) ==
    /\ last' = [op |-> op]
    /\ pending' = Touched(pending)
    /\ UNCHANGED <<formName, orderType, pureVars>>

\* a setter of the cart called from a handler of the current step; the handlers of
\* BuyOrderForm also clear the error, the inline setters of CreateOrder do not
EditCart(newCart) ==
    /\ PageEnabled
    /\ LET synced == IF formName = "CreateOrder" /\ currentStep = "details"
                     THEN SyncEffect(newCart, prevSubTotalRef)
                     ELSE <<newCart, prevSubTotalRef>>
       IN  formState' = synced[1] /\ prevSubTotalRef' = synced[2]
    /\ error' = IF formName = "BuyOrderForm" THEN NoError ELSE error
    /\ UNCHANGED <<currentStep, loading, isAccountSelectionActive, selectedVendorAccount>>
    /\ UserStep("edit")

UpdateProducts(products) == EditCart([formState EXCEPT !.products = products])

SelectEntity(entity) ==
    /\ currentStep = "details"
    /\ EditCart([formState EXCEPT !.entity = entity])

AddEmptySlot ==
    /\ currentStep = "details"
    /\ Len(formState.products) < MaxFormItems
    /\ UpdateProducts(handleAddEmptySlot(formState.products))

RemoveProduct(index) ==
    /\ currentStep = "details"
    /\ index \in 1..Len(formState.products)
    /\ UpdateProducts(handleRemoveProduct(formState.products, index))

GlobalSelect(productId, variantId) ==
    /\ currentStep = "details"
    /\ LET products == handleGlobalSelect(orderType, formState.products, productId, variantId)
       IN  /\ Len(products) <= MaxFormItems
           /\ UpdateProducts(products)

ProductSelect(index, productId) ==
    /\ currentStep = "details"
    /\ index \in 1..Len(formState.products)
    /\ UpdateProducts(handleProductSelect(orderType, formState.products, index, productId))

\* the variant selector is shown once the row has a product
\* onChange of the rate input, which every row has: Math.max(0, newRate || 0)
RateChange(index, newRate) ==
    /\ currentStep = "details"
    /\ index \in 1..Len(formState.products)
    /\ UpdateProducts(handleRateChange(formState.products, index, newRate))

VariantSelect(index, variantId) ==
    /\ currentStep = "details"
    /\ index \in 1..Len(formState.products)
    /\ formState.products[index].productId # ""
    /\ UpdateProducts(handleVariantSelect(orderType, formState.products, index, variantId))

RowStock(index) ==
    getVariantStock(variantMapGet(FormProducts, formState.products[index].variantId).stock_fifo_queue)

\* the minus button
QuantityMinus(index) ==
    /\ currentStep = "details"
    /\ index \in 1..Len(formState.products)
    /\ ~(formState.products[index].variantId = "" \/ formState.products[index].quantity <= 1)
    /\ UpdateProducts(handleQuantityChange(orderType, formState.products, index,
                                           formState.products[index].quantity - 1))

\* the plus button
QuantityPlus(index) ==
    /\ currentStep = "details"
    /\ index \in 1..Len(formState.products)
    /\ ~(formState.products[index].variantId = ""
         \/ (orderType = "SELL" /\ formState.products[index].quantity >= RowStock(index)))
    /\ formState.products[index].quantity < MaxQuantity
    /\ UpdateProducts(handleQuantityChange(orderType, formState.products, index,
                                           formState.products[index].quantity + 1))

\* onChange of the quantity input: the typed number is stored as it is
QuantityTyped(index, quantity) ==
    /\ currentStep = "details"
    /\ index \in 1..Len(formState.products)
    /\ formState.products[index].variantId # ""
    /\ UpdateProducts(updateProductAtIndex(formState.products, index, [quantity |-> quantity]))

\* onBlur of the quantity input
QuantityBlur(index) ==
    /\ currentStep = "details"
    /\ index \in 1..Len(formState.products)
    /\ formState.products[index].variantId # ""
    /\ UpdateProducts(handleQuantityChange(orderType, formState.products, index,
                                           formState.products[index].quantity))

\* the tax select of CalculationSelector (CreateOrder only)
SelectTaxRate(val) ==
    /\ currentStep = "details"
    /\ formName = "CreateOrder"
    /\ EditCart([formState EXCEPT !.taxType = "percentage", !.taxPercentage = val,
                                  !.tax = TaxOf(calculateSubTotal(formState.products), val)])

AddChargeUpTo(maxCharges) ==
    /\ currentStep = "details"
    /\ formName = "CreateOrder"
    /\ Len(formState.charges) < maxCharges
    /\ EditCart([formState EXCEPT !.charges = handleAddCharge(@)])

AddCharge == AddChargeUpTo(MaxFormCharges)

ChargeChange(index, updatedFields) ==
    /\ currentStep = "details"
    /\ formName = "CreateOrder"
    /\ index \in 1..Len(formState.charges)
    /\ EditCart([formState EXCEPT !.charges = handleChargeChange(@, index, updatedFields)])

RemoveCharge(index) ==
    /\ currentStep = "details"
    /\ formName = "CreateOrder"
    /\ index \in 1..Len(formState.charges)
    /\ EditCart([formState EXCEPT !.charges = handleRemoveCharge(@, index)])

\* BuyOrderForm: the legacy CalculationSelector hands over a whole list
LegacyChargesUpdate(legacyCharges) ==
    /\ currentStep = "details"
    /\ formName = "BuyOrderForm"
    /\ EditCart([formState EXCEPT !.charges = convertLegacyChargesToLocal(legacyCharges)])

SetPayments(payments) ==
    /\ currentStep = "payment"
    /\ EditCart([formState EXCEPT !.payments = payments])

\* the X of the error banner
DismissError ==
    /\ PageEnabled
    /\ error # NoError
    /\ error' = NoError
    /\ UNCHANGED <<formState, currentStep, loading, isAccountSelectionActive,
                   selectedVendorAccount, prevSubTotalRef>>
    /\ UserStep("edit")

\* setFormState(resetState); setError(null); setCurrentStep("details"), and in
\* BuyOrderForm setSelectedVendorAccount(null); CalculationSelector keeps its ref
\* if it is mounted and mounts on the empty cart otherwise
ResetFormKeepingError ==
    /\ formState' = resetState(formName)
    /\ currentStep' = "details"
    /\ selectedVendorAccount' = NoAccountId
    /\ prevSubTotalRef' = IF currentStep = "details" THEN prevSubTotalRef ELSE 0
    /\ UNCHANGED error

ResetFormState ==
    /\ formState' = resetState(formName)
    /\ error' = NoError
    /\ currentStep' = "details"
    /\ selectedVendorAccount' = NoAccountId
    /\ prevSubTotalRef' = IF currentStep = "details" THEN prevSubTotalRef ELSE 0

\* the Clear Form button of the details step
ClearForm ==
    /\ currentStep = "details"
    /\ PageEnabled
    /\ ResetFormState
    /\ UNCHANGED <<loading, isAccountSelectionActive>>
    /\ last' = [op |-> "resetForm", again |-> last.op = "resetForm"]
    /\ pending' = Touched(pending)
    /\ UNCHANGED <<formName, orderType, pureVars>>

HandleContinueSkippingPayment ==
    /\ currentStep = "details"
    /\ PageEnabled
    /\ currentStep' = "summary"
    /\ error' = NoError
    /\ prevSubTotalRef' = 0
    /\ UNCHANGED <<formState, loading, isAccountSelectionActive, selectedVendorAccount>>
    /\ UserStep("handleContinueToPayment")

HandleContinueToPayment ==
    /\ currentStep = "details"
    /\ PageEnabled
    /\ LET validationError == validateOrderDetails(orderType, formState)
       IN  IF validationError # NoError
           THEN /\ error' = validationError
                /\ UNCHANGED <<currentStep, prevSubTotalRef>>
           ELSE /\ currentStep' = "payment"
                /\ error' = NoError
                /\ prevSubTotalRef' = 0
    /\ UNCHANGED <<formState, loading, isAccountSelectionActive, selectedVendorAccount>>
    /\ UserStep("handleContinueToPayment")

HandleContinueToSummary ==
    /\ currentStep = "payment"
    /\ PageEnabled
    /\ LET validationError == validatePaymentDetails(formName, orderType, formState)
       IN  IF validationError # NoError
           THEN /\ error' = validationError
                /\ UNCHANGED currentStep
           ELSE /\ currentStep' = "summary"
                /\ error' = NoError
    /\ UNCHANGED <<formState, loading, isAccountSelectionActive, selectedVendorAccount,
                   prevSubTotalRef>>
    /\ UserStep("handleContinueToSummary")

BackToDetailsClearingPayments ==
    /\ currentStep = "payment"
    /\ PageEnabled
    /\ currentStep' = "details"
    /\ formState' = [formState EXCEPT !.payments = <<>>]
    /\ error' = IF formName = "BuyOrderForm" THEN NoError ELSE error
    /\ prevSubTotalRef' = IF formName = "CreateOrder"
                          THEN calculateSubTotal(formState.products) ELSE 0
    /\ UNCHANGED <<loading, isAccountSelectionActive, selectedVendorAccount>>
    /\ UserStep("back")

\* CreateOrder: onClick={() => setCurrentStep("details")}; BuyOrderForm:
\* handleBackToDetails, which also clears the error.  CalculationSelector mounts.
BackToDetails ==
    /\ currentStep = "payment"
    /\ PageEnabled
    /\ currentStep' = "details"
    /\ error' = IF formName = "BuyOrderForm" THEN NoError ELSE error
    /\ prevSubTotalRef' = IF formName = "CreateOrder"
                          THEN calculateSubTotal(formState.products) ELSE 0
    /\ UNCHANGED <<formState, loading, isAccountSelectionActive, selectedVendorAccount>>
    /\ UserStep("back")

BackToPayment ==
    /\ currentStep = "summary"
    /\ PageEnabled
    /\ currentStep' = "payment"
    /\ error' = IF formName = "BuyOrderForm" THEN NoError ELSE error
    /\ UNCHANGED <<formState, loading, isAccountSelectionActive, selectedVendorAccount,
                   prevSubTotalRef>>
    /\ UserStep("back")

\* ---- submission ----

SubmitNeverDisabled(isLoading) == FALSE

\* the Confirm button: disabled={loading}
SubmitDisabled(isLoading) == isLoading

\* which way handleSubmit goes when its closure holds the vendor account `account`;
\* CreateOrder has neither the account selection nor validateSubmission
SubmitKind(account) ==
    LET vendorCharges == Calculations(formName, formState).vendorCharges
    IN  IF currentStep # "summary" THEN "return"
        ELSE IF formName = "BuyOrderForm" /\ orderType = "BUY" /\ vendorCharges > 0
                /\ account = NoAccountId
             THEN "selectAccount"
        ELSE IF formName = "BuyOrderForm"
                /\ validateSubmission(orderType, vendorCharges, account) # NoError
             THEN "invalid"
        ELSE "submit"

\* handleSubmit up to its first await; `dialog` is what isAccountSelectionActive is
\* unless handleSubmit opens the dialog
HandleSubmit(op, account, dialog) ==
    LET kind == SubmitKind(account)
        vendorCharges == Calculations(formName, formState).vendorCharges
    IN  /\ kind = "submit" => Len(pending) < MaxInFlight
        /\ isAccountSelectionActive' = IF kind = "selectAccount" THEN TRUE ELSE dialog
        /\ error' = IF kind = "invalid"
                    THEN validateSubmission(orderType, vendorCharges, account)
                    ELSE IF kind = "submit" THEN NoError ELSE error
        /\ loading' = IF kind = "submit" THEN TRUE ELSE loading
        /\ pending' = IF kind = "submit"
                      THEN Append(Touched(pending),
                                  Submission(formState, vendorCharges, account))
                      ELSE Touched(pending)
        /\ last' = [op |-> op]
        /\ UNCHANGED <<formState, currentStep, prevSubTotalRef, formName, orderType, pureVars>>

\* a click on the Confirm button of the summary step
SubmitClick ==
    /\ currentStep = "summary"
    /\ PageEnabled
    /\ ~SubmitDisabled(loading)
    /\ HandleSubmit("handleSubmit", selectedVendorAccount, isAccountSelectionActive)
    /\ UNCHANGED selectedVendorAccount

\* BuyOrderForm: a click on an account of the dialog; the handleSubmit it calls is
\* the one of the last render, which holds the account selected before
VendorAccountSelect(account) ==
    /\ formName = "BuyOrderForm"
    /\ isAccountSelectionActive
    /\ IsAccount(accountMapGet(FormAccounts, account))
    /\ ~(Hundredths(accountMapGet(FormAccounts, account).balance)
            < Calculations(formName, formState).vendorCharges)
    /\ selectedVendorAccount' = account
    /\ HandleSubmit("handleVendorAccountSelect", selectedVendorAccount, FALSE)

\* BuyOrderForm: Cancel or dismissal of the dialog
DialogClose ==
    /\ formName = "BuyOrderForm"
    /\ isAccountSelectionActive
    /\ isAccountSelectionActive' = FALSE
    /\ UNCHANGED <<formState, currentStep, error, loading, selectedVendorAccount,
                   prevSubTotalRef>>
    /\ UserStep("onClose")

\* the body of the api.post of handleSubmit, for the submission `submission`; the
\* order id is the one of the order onSubmit resolved with
VendorTransaction(submission) ==
    [accountId |-> submission.vendorAccount, amount |-> submission.vendorCharges,
     type |-> "BUY"]

\* resetForm(), then finally setLoading(false); `last` keeps whether onSubmit gave an
\* order, the vendor charges of the submission and the transactions it posted
Succeed(i, createdOrder, posted) ==
    /\ ResetFormState
    /\ loading' = FALSE
    /\ pending' = RemoveAt(pending, i)
    /\ last' = [op |-> "handleSubmit:succeeded", touched |-> pending[i].touched,
                created |-> createdOrder, vendorCharges |-> pending[i].vendorCharges,
                posted |-> posted]
    /\ UNCHANGED <<isAccountSelectionActive, formName, orderType, pureVars>>

\* catch: setError(...), then finally setLoading(false)
Fail(i) ==
    /\ error' = ErrSubmit
    /\ loading' = FALSE
    /\ pending' = RemoveAt(pending, i)
    /\ last' = [op |-> "handleSubmit:failed", created |-> pending[i].created,
                touched |-> pending[i].touched, cart |-> pending[i].cart]
    /\ UNCHANGED <<formState, currentStep, isAccountSelectionActive, selectedVendorAccount,
                   prevSubTotalRef, formName, orderType, pureVars>>

\* onSubmit(payload) resolves, with an order or with nothing
OnSubmitResolved(i, createdOrder) ==
    /\ i \in 1..Len(pending)
    /\ pending[i].phase = "onSubmit"
    /\ IF formName = "BuyOrderForm" /\ createdOrder
          /\ pending[i].vendorAccount # NoAccountId /\ pending[i].vendorCharges > 0
       THEN \* await api.post(.../accounts/${id}/transactions, ...)
            /\ pending' = [pending EXCEPT ![i].phase = "transaction", ![i].created = TRUE]
            /\ last' = [op |-> "onSubmit:resolved"]
            /\ UNCHANGED <<formState, currentStep, error, loading, isAccountSelectionActive,
                           selectedVendorAccount, prevSubTotalRef, formName, orderType,
                           pureVars>>
       ELSE Succeed(i, createdOrder, <<>>)

OnSubmitRejected(i) ==
    /\ i \in 1..Len(pending)
    /\ pending[i].phase = "onSubmit"
    /\ Fail(i)

TransactionResolved(i) ==
    /\ i \in 1..Len(pending)
    /\ pending[i].phase = "transaction"
    /\ Succeed(i, TRUE, <<VendorTransaction(pending[i])>>)

TransactionRejected(i) ==
    /\ i \in 1..Len(pending)
    /\ pending[i].phase = "transaction"
    /\ Fail(i)

\* the form is mounted: no saved draft, no default entity
Init ==
    /\ formName \in Forms
    /\ orderType \in {"BUY", "SELL"}
    /\ formState = createInitialFormState(formName, NoEntity)
    /\ currentStep = "details"
    /\ error = NoError
    /\ loading = FALSE
    /\ isAccountSelectionActive = FALSE
    /\ selectedVendorAccount = NoAccountId
    /\ prevSubTotalRef = 0
    /\ pending = <<>>
    /\ last = [op |-> "mount"]
    /\ entityOrders = <<>> /\ SettleIdle
    /\ PricingOff /\ StockOff /\ BalanceOff /\ FifoOff /\ ExtraOff

Next ==
    \/ \E entity \in FormEntities \cup {NoEntity} : SelectEntity(entity)
    \/ AddEmptySlot
    \/ \E index \in 1..MaxFormItems : RemoveProduct(index)
    \/ GlobalSelect("p1", "v1")
    \/ \E index \in 1..MaxFormItems : ProductSelect(index, "p1")
    \/ \E index \in 1..MaxFormItems : VariantSelect(index, "v1")
    \/ \E index \in 1..MaxFormItems : QuantityMinus(index)
    \/ \E index \in 1..MaxFormItems : QuantityPlus(index)
    \/ \E index \in 1..MaxFormItems, quantity \in QuantityInputs : QuantityTyped(index, quantity)
    \/ \E index \in 1..MaxFormItems : QuantityBlur(index)
    \/ \E val \in TaxRates : SelectTaxRate(val)
    \/ AddCharge
    \/ \E index \in 1..MaxFormCharges, updatedFields \in ChargeUpdates :
           ChargeChange(index, updatedFields)
    \/ \E index \in 1..MaxFormCharges : RemoveCharge(index)
    \/ \E legacyCharges \in SeqsUpTo(LegacyCharges, MaxFormCharges) :
           LegacyChargesUpdate(legacyCharges)
    \/ \E payments \in PaymentLists : SetPayments(payments)
    \/ DismissError
    \/ ClearForm
    \/ HandleContinueToPayment
    \/ HandleContinueToSummary
    \/ BackToDetails
    \/ BackToPayment
    \/ SubmitClick
    \/ \E account \in {"a1", "a2"} : VendorAccountSelect(account)
    \/ DialogClose
    \/ \E i \in 1..MaxInFlight, createdOrder \in BOOLEAN : OnSubmitResolved(i, createdOrder)
    \/ \E i \in 1..MaxInFlight : OnSubmitRejected(i)
    \/ \E i \in 1..MaxInFlight : TransactionResolved(i)
    \/ \E i \in 1..MaxInFlight : TransactionRejected(i)

Spec == Init /\ [][Next]_vars

\* ---- CreateOrder mounted with a default entity: the point-of-sale path ----

MaxPosCharges == 2

PosEntities == {"walkin", "e1"}
RateInputs == {50}
PosChargeUpdates == {[amount |-> 1], [isPaidByBusiness |-> TRUE]}
PosPaymentLists == {<<>>, <<[accountId |-> "a1", amount |-> 200]>>}

\* the effect that sets the cash counter payment; it runs after the mount and when
\* type, defaultEntity or accounts change, which props of a mounted form do not
CashCounterEffect(orderKind, defaultEntity, accounts, cart) ==
    LET cashCounterAccount == FindByType(accounts, "CASH_COUNTER")
        grandTotal == calculateGrandTotal(calculateSubTotal(cart.products), cart.discount,
                                          cart.tax, cart.charges)
    IN  IF defaultEntity # NoEntity /\ orderKind = "SELL" /\ isDefault(defaultEntity)
           /\ IsAccount(cashCounterAccount)
        THEN [cart EXCEPT !.payments = <<[accountId |-> cashCounterAccount.id,
                                          amount |-> grandTotal \div 100]>>]
        ELSE cart

\* CreateOrder is mounted for a sale, with or without a default entity
PosInit ==
    /\ formName = "CreateOrder"
    /\ orderType = "SELL"
    /\ \E defaultEntity \in PosEntities \cup {NoEntity} :
           formState = CashCounterEffect(orderType, defaultEntity, FormAccounts,
                                         createInitialFormState(formName, defaultEntity))
    /\ currentStep = "details"
    /\ error = NoError
    /\ loading = FALSE
    /\ isAccountSelectionActive = FALSE
    /\ selectedVendorAccount = NoAccountId
    /\ prevSubTotalRef = 0
    /\ pending = <<>>
    /\ last = [op |-> "mount"]
    /\ entityOrders = <<>> /\ SettleIdle
    /\ PricingOff /\ StockOff /\ BalanceOff /\ FifoOff /\ ExtraOff

PosNext ==
    \/ \E entity \in PosEntities \cup {NoEntity} : SelectEntity(entity)
    \/ AddEmptySlot
    \/ GlobalSelect("p1", "v1")
    \/ \E index \in 1..MaxFormItems, newRate \in RateInputs : RateChange(index, newRate)
    \/ \E val \in TaxRates : SelectTaxRate(val)
    \/ AddChargeUpTo(MaxPosCharges)
    \/ \E index \in 1..MaxPosCharges, updatedFields \in PosChargeUpdates :
           ChargeChange(index, updatedFields)
    \/ \E payments \in PosPaymentLists : SetPayments(payments)
    \/ HandleContinueToPayment
    \/ HandleContinueToSummary
    \/ BackToDetails
    \/ BackToPayment
    \/ SubmitClick
    \/ \E i \in 1..MaxInFlight, createdOrder \in BOOLEAN : OnSubmitResolved(i, createdOrder)
    \/ \E i \in 1..MaxInFlight : OnSubmitRejected(i)

SpecPos == PosInit /\ [][PosNext]_vars

\* ---- the guards of the steps ----

FullySpecified(item) == item.productId # "" /\ item.variantId # ""

DetailsGuard(orderKind, cart) ==
    /\ \E i \in DOMAIN cart.products : FullySpecified(cart.products[i])
    /\ orderKind = "SELL" =>
           \A i \in DOMAIN cart.products : ~OverStock(FormProducts, cart.products[i])

PaymentGuard(form, orderKind, cart) ==
    /\ cart.entity # NoEntity \/ Calculations(form, cart).remainingAmount = 0
    /\ orderKind = "BUY" =>
           \A k \in DOMAIN cart.payments : ~OverBalance(FormAccounts, cart.payments[k])

\* C6: the form moves from details to payment only if the cart has a line item with
\* product and variant set and, for SELL, no line asks more than the stock of its
\* variant; when handleContinueToPayment runs on a cart that fails this, the step stays
\* details and the error is set.
C6_GuardDetailsToPayment ==
    [][/\ (currentStep = "details" /\ currentStep' = "payment")
              => DetailsGuard(orderType, formState)
       /\ (last'.op = "handleContinueToPayment" /\ ~DetailsGuard(orderType, formState))
              => (currentStep' = "details" /\ error' # NoError /\ formState' = formState)]_vars

\* a SELL line asking 2 of 1 available has blocked the transition
C6_Witness ==
    /\ last.op = "handleContinueToPayment"
    /\ orderType = "SELL"
    /\ currentStep = "details"
    /\ error = ErrStock
    /\ \E i \in DOMAIN formState.products :
           /\ formState.products[i].quantity = 2
           /\ OverStock(FormProducts, formState.products[i])

\* C7: the form moves from payment to summary only if an entity is selected or the
\* remaining amount is 0 and, for BUY, no payment exceeds the balance of its account;
\* when handleContinueToSummary runs on a cart that fails this, the step stays payment
\* and the error is set.
C7_GuardPaymentToSummary ==
    [][/\ (currentStep = "payment" /\ currentStep' = "summary")
              => PaymentGuard(formName, orderType, formState)
       /\ (last'.op = "handleContinueToSummary"
           /\ ~PaymentGuard(formName, orderType, formState))
              => (currentStep' = "payment" /\ error' # NoError /\ formState' = formState)]_vars

\* an unpaid order without an entity has been held back on the payment step
C7_Witness ==
    /\ last.op = "handleContinueToSummary"
    /\ currentStep = "payment"
    /\ error = ErrEntity
    /\ formState.entity = NoEntity
    /\ Calculations(formName, formState).remainingAmount > 0

\* C8: when a submission fails (onSubmit or a follow-up call of the handler rejects)
\* and the user has not acted since it started, the form is on the summary step with
\* an error, the cart is the one the submission started from, and no order has been
\* created for it.
C8_FailedSubmissionRetryable ==
    (last.op = "handleSubmit:failed" /\ ~last.touched) =>
        /\ currentStep = "summary"
        /\ error # NoError
        /\ formState = last.cart
        /\ ~last.created

\* the same statement for CreateOrder alone, whose handler has one await
C8_FailedSubmissionCreateOrder ==
    formName = "CreateOrder" => C8_FailedSubmissionRetryable

\* C9: when a submission succeeds the form is on the details step with no error and
\* with the cart a newly mounted form without a draft and without a default entity has.
C9_SuccessfulSubmissionFreshCart ==
    last.op = "handleSubmit:succeeded" =>
        /\ currentStep = "details"
        /\ error = NoError
        /\ formState = createInitialFormState(formName, NoEntity)

\* the same statement for BuyOrderForm alone, whose cart has no taxType
C9_SuccessfulSubmissionBuyOrderForm ==
    formName = "BuyOrderForm" => C9_SuccessfulSubmissionFreshCart

\* the submissions whose onSubmit call has not completed
InFlight == {i \in DOMAIN pending : pending[i].phase = "onSubmit"}

\* C10: onSubmit is never invoked while an earlier invocation of the same form has not
\* completed, whatever the user does while a submission is pending.
C10_NoDoubleSubmission == Cardinality(InFlight) <= 1

\* a submission is pending and the user, having acted since, is on the summary step
C10_Witness ==
    /\ Len(pending) = 1
    /\ pending[1].phase = "onSubmit"
    /\ pending[1].touched
    /\ loading
    /\ currentStep = "summary"

-----------------------------------------------------------------------------
(* The FIFO estimates of a SELL line item: getVariantEstimatedPrice and the *)
(* price breakdown of forms/order/product-details.tsx, the stock validation *)
(* of the same line, and the row of the legacy ProductDetails.              *)
(* The estimated price is kept in ten-thousandths, toFixed(4) being exact   *)
(* there.                                                                   *)

MaxFifoLots == 3
MaxFifoQuantity == 4
MaxLegacyItems == 2

RECURSIVE Reverse(_)
Reverse(s) == IF s = <<>> THEN <<>> ELSE Reverse(Tail(s)) \o <<Head(s)>>

FifoEntriesNewestFirst(queue) == Reverse(queue)

\* for (const entry of variant.stock_fifo_queue)
FifoEntries(queue) == queue

QtyToUseNoCap(availableStock, remainingQty) == remainingQty

\* Math.min(entry.availableStock, remainingQty)
QtyToUse(availableStock, remainingQty) == Min(availableStock, remainingQty)

PriceIsZeroNoStockCheck(quantity, totalStock) == quantity <= 0

\* quantity <= 0 || quantity > totalStock
PriceIsZero(quantity, totalStock) == quantity <= 0 \/ quantity > totalStock

RECURSIVE EstimateLoop(_, _)
\* the for loop of getVariantEstimatedPrice: totalPrice, from the entries left
EstimateLoop(entries, remainingQty) ==
    IF entries = <<>> THEN 0
    ELSE LET entry == Head(entries)
         IN  IF entry.availableStock <= 0 THEN EstimateLoop(Tail(entries), remainingQty)
             ELSE LET qtyToUse == QtyToUse(entry.availableStock, remainingQty)
                  IN  qtyToUse * entry.estimatedPrice
                      + (IF remainingQty - qtyToUse <= 0 THEN 0
                         ELSE EstimateLoop(Tail(entries), remainingQty - qtyToUse))

\* parseFloat((totalPrice / quantity).toFixed(4)), in ten-thousandths: the nearest
\* one; a tie needs a quantity that is a multiple of 32
ToFixed4(totalPrice, quantity) == (20000 * totalPrice + quantity) \div (2 * quantity)

\* in ten-thousandths
getVariantEstimatedPrice(queue, quantity) ==
    IF PriceIsZero(quantity, getVariantStock(queue)) THEN 0
    ELSE ToFixed4(EstimateLoop(FifoEntries(queue), quantity), quantity)

RECURSIVE BreakdownLoop(_, _)
\* the for loop of the Price Breakdown tooltip
BreakdownLoop(entries, remainingQty) ==
    IF entries = <<>> THEN <<>>
    ELSE LET entry == Head(entries)
         IN  IF entry.availableStock <= 0 \/ remainingQty <= 0
             THEN BreakdownLoop(Tail(entries), remainingQty)
             ELSE LET qtyToUse == QtyToUse(entry.availableStock, remainingQty)
                  IN  <<[qty |-> qtyToUse, price |-> entry.estimatedPrice]>>
                      \o BreakdownLoop(Tail(entries), remainingQty - qtyToUse)

PriceBreakdownOf(queue, quantity) == BreakdownLoop(FifoEntries(queue), quantity)

\* ---- the row of the legacy ProductDetails ----

RECURSIVE InsertByDate(_, _, _)
\* Array.prototype.sort is stable
InsertByDate(x, sorted, newestFirst) ==
    IF sorted = <<>> THEN <<x>>
    ELSE IF (IF newestFirst THEN Head(sorted).createdAt >= x.createdAt
                            ELSE Head(sorted).createdAt <= x.createdAt)
         THEN <<Head(sorted)>> \o InsertByDate(x, Tail(sorted), newestFirst)
         ELSE <<x>> \o sorted

RECURSIVE SortByDate(_, _)
SortByDate(s, newestFirst) ==
    IF s = <<>> THEN <<>>
    ELSE InsertByDate(s[Len(s)], SortByDate(SubSeq(s, 1, Len(s) - 1), newestFirst),
                      newestFirst)

RECURSIVE ApplicableLoop(_, _)
\* the map over the purchase records, newest first, and the filter of the nulls; a
\* record that is larger than the stock left has its quantity reduced in place
ApplicableLoop(orders, availableStock) ==
    IF orders = <<>> THEN <<>>
    ELSE LET item == Head(orders)
         IN  IF availableStock > 0
             THEN IF availableStock < item.quantity
                  THEN <<[item EXCEPT !.quantity = @ - availableStock]>>
                       \o ApplicableLoop(Tail(orders), 0)
                  ELSE <<item>> \o ApplicableLoop(Tail(orders), availableStock - item.quantity)
             ELSE ApplicableLoop(Tail(orders), availableStock)

RECURSIVE SelectedLoop(_, _)
\* the filter over the applicable records, oldest first; again a record larger than
\* what is left of the line's quantity is reduced in place
SelectedLoop(orders, newStock) ==
    IF orders = <<>> THEN <<>>
    ELSE LET order == Head(orders)
         IN  IF newStock > 0
             THEN IF newStock < order.quantity
                  THEN <<[order EXCEPT !.quantity = @ - newStock]>>
                       \o SelectedLoop(Tail(orders), 0)
                  ELSE <<order>> \o SelectedLoop(Tail(orders), newStock - order.quantity)
             ELSE SelectedLoop(Tail(orders), newStock)

\* the record with the id of `item` in `records`, `item` itself if there is none
RecordAfter(records, item) ==
    IF \E k \in DOMAIN records : records[k].id = item.id
    THEN records[CHOOSE k \in DOMAIN records : records[k].id = item.id]
    ELSE item

\* one render of a row: <<selectedOrders, variant.items after it>>; the records of
\* the lists are the objects of variant.items
LegacyRow(items, stock, quantity) ==
    LET buyOrders == SelectSeq(items, LAMBDA item : item.type = "BUY")
        applicableOrders == ApplicableLoop(SortByDate(buyOrders, TRUE), stock)
        selectedOrders == SelectedLoop(SortByDate(applicableOrders, FALSE), quantity)
        afterMap == [i \in DOMAIN items |-> RecordAfter(applicableOrders, items[i])]
        afterFilter == [i \in DOMAIN afterMap |-> RecordAfter(selectedOrders, afterMap[i])]
    IN  <<selectedOrders, afterFilter>>

\* ---- the specification ----

FifoLots == [availableStock : {0, 1, 2}, estimatedPrice : {10, 12}]
PurchaseRecords == [createdAt : {1, 2}, quantity : {1, 2}, type : {"BUY", "SELL"}]

\* the purchase records of a variant, each with its id
PurchaseItems(s) ==
    [i \in DOMAIN s |-> [id |-> i, createdAt |-> s[i].createdAt,
                         quantity |-> s[i].quantity, type |-> s[i].type]]

FifoLine(queue, quantity) ==
    [productId |-> "p1", variantId |-> "v1", rate |-> 3, quantity |-> quantity]

\* either a variant with a FIFO queue, or a variant of the legacy row with its
\* purchase records
FifoInit ==
    /\ fQuantity \in -1..MaxFifoQuantity
    /\ \/ /\ fQueue \in SeqsUpTo(FifoLots, MaxFifoLots)
          /\ lLoaded = <<>> /\ lStock = 0
       \/ /\ fQueue = <<>>
          /\ lLoaded \in {PurchaseItems(s) : s \in SeqsFrom1(PurchaseRecords, MaxLegacyItems)}
          /\ lStock \in 0..2
    /\ lItems = lLoaded
    /\ fPrice = <<>> /\ fBreakdown = <<>> /\ fValidation = <<>> /\ lSelected = <<>>
    /\ entityOrders = <<>> /\ SettleIdle
    /\ PricingOff /\ StockOff /\ BalanceOff /\ FormOff /\ ExtraOff

FifoFrame == UNCHANGED <<fQueue, fQuantity, lLoaded, lStock, settleVars, pricingVars,
                         stockVars, balanceVars, formVars, extraVars>>

\* a render of the row computes the estimated price of the line
EstimatePrice ==
    /\ fPrice' = <<getVariantEstimatedPrice(fQueue, fQuantity)>>
    /\ UNCHANGED <<fBreakdown, fValidation, lItems, lSelected>>
    /\ FifoFrame

\* the tooltip is rendered for item.quantity > 0
PriceBreakdown ==
    /\ fQuantity > 0
    /\ fBreakdown' = <<PriceBreakdownOf(fQueue, fQuantity)>>
    /\ UNCHANGED <<fPrice, fValidation, lItems, lSelected>>
    /\ FifoFrame

\* the validation memo of ProductDetails, for a SELL order with this one line
ValidateLine ==
    /\ fValidation' = validateProductQuantities("SELL", StockCatalogue(fQueue),
                                                <<FifoLine(fQueue, fQuantity)>>)
    /\ UNCHANGED <<fPrice, fBreakdown, lItems, lSelected>>
    /\ FifoFrame

\* a render of the row of the legacy ProductDetails
RenderLegacyRow ==
    /\ lLoaded # <<>>
    /\ LET row == LegacyRow(lItems, lStock, fQuantity)
       IN  lSelected' = row[1] /\ lItems' = row[2]
    /\ UNCHANGED <<fPrice, fBreakdown, fValidation>>
    /\ FifoFrame

FifoNext == EstimatePrice \/ PriceBreakdown \/ ValidateLine \/ RenderLegacyRow

SpecFifo == FifoInit /\ [][FifoNext]_vars

\* ---- the FIFO walk, stated lot by lot ----

QueueStock(queue) == AvailableStock([stock_fifo_queue |-> queue])

\* the units lot i gives to a quantity: what is still needed after the lots before
\* it, at most what the lot has
TakenFrom(queue, quantity, i) ==
    Min(queue[i].availableStock,
        Max(quantity - QueueStock(SubSeq(queue, 1, i - 1)), 0))

TotalCost(queue, quantity) ==
    LET f[i \in 0..Len(queue)] ==
            IF i = 0 THEN 0
            ELSE f[i - 1] + TakenFrom(queue, quantity, i) * queue[i].estimatedPrice
    IN  f[Len(queue)]

Abs(x) == IF x < 0 THEN -x ELSE x

\* C11, as stated: getVariantEstimatedPrice is 0 when the quantity is not positive or
\* exceeds the stock, and otherwise exactly totalCost / quantity of the oldest-first walk.
C11_WeightedPriceExact ==
    fPrice # <<>> =>
        IF fQuantity <= 0 \/ fQuantity > QueueStock(fQueue)
        THEN fPrice[1] = 0
        ELSE fPrice[1] * fQuantity = 10000 * TotalCost(fQueue, fQuantity)

\* C11, amended: getVariantEstimatedPrice is 0 when the quantity is not positive or
\* exceeds the stock, and otherwise totalCost / quantity of the oldest-first walk
\* rounded to 4 decimal places (the nearest ten-thousandth).
C11_WeightedPriceRounded ==
    fPrice # <<>> =>
        IF fQuantity <= 0 \/ fQuantity > QueueStock(fQueue)
        THEN fPrice[1] = 0
        ELSE 2 * Abs(fPrice[1] * fQuantity - 10000 * TotalCost(fQueue, fQuantity)) <= fQuantity

\* 3 units costed from two lots at different prices, the quotient not being a
\* multiple of a ten-thousandth
C11_Witness ==
    /\ fPrice # <<>>
    /\ fQuantity = 3
    /\ fQuantity <= QueueStock(fQueue)
    /\ \E i, j \in DOMAIN fQueue :
           /\ i < j
           /\ TakenFrom(fQueue, fQuantity, i) > 0 /\ TakenFrom(fQueue, fQuantity, j) > 0
           /\ fQueue[i].estimatedPrice # fQueue[j].estimatedPrice
    /\ fPrice[1] * fQuantity # 10000 * TotalCost(fQueue, fQuantity)

\* the number of lots with stock among the first i lots
LotRank(queue, i) == Cardinality({j \in 1..i : queue[j].availableStock > 0})

\* the units a breakdown shows for lot i: its entries are those of the lots with
\* stock, in queue order
ShownFor(breakdown, queue, i) ==
    IF queue[i].availableStock > 0 /\ LotRank(queue, i) <= Len(breakdown)
    THEN breakdown[LotRank(queue, i)].qty
    ELSE 0

\* C12: for quantities q1 < q2 within the stock, the breakdown of q1 takes from each
\* lot, in queue order, at most what the breakdown of q2 takes; a lot of q1 before its
\* last one is taken in full and in the same amount for q2; and a later lot is used
\* only when every earlier lot is fully consumed.
C12_FifoMonotone ==
    (fBreakdown # <<>> /\ fQuantity <= QueueStock(fQueue)) =>
        \A q1 \in 1..(fQuantity - 1) :
            LET b1 == PriceBreakdownOf(fQueue, q1)
                b2 == fBreakdown[1]
                LotIds == DOMAIN fQueue
            IN  /\ Len(b1) <= Len(b2)
                /\ \A i \in LotIds : ShownFor(b1, fQueue, i) <= ShownFor(b2, fQueue, i)
                /\ \A i, j \in LotIds :
                       (i < j /\ ShownFor(b1, fQueue, j) > 0) =>
                           /\ ShownFor(b1, fQueue, i) = fQueue[i].availableStock
                           /\ ShownFor(b1, fQueue, i) = ShownFor(b2, fQueue, i)
                /\ \A i, j \in LotIds :
                       (i < j /\ ShownFor(b2, fQueue, j) > 0) =>
                           ShownFor(b2, fQueue, i) = fQueue[i].availableStock
                /\ \A k \in DOMAIN b2 :
                       \E i \in LotIds : /\ LotRank(fQueue, i) = k
                                       /\ fQueue[i].availableStock > 0
                                       /\ b2[k].price = fQueue[i].estimatedPrice

\* 3 units broken down over two lots of a queue that has an empty lot
C12_Witness ==
    /\ fQuantity = 3
    /\ fQuantity <= QueueStock(fQueue)
    /\ fBreakdown # <<>>
    /\ Len(fBreakdown[1]) = 2
    /\ \E i \in DOMAIN fQueue : fQueue[i].availableStock = 0
    /\ Len(PriceBreakdownOf(fQueue, 2)) = 1

SumQty(breakdown) ==
    LET f[k \in 0..Len(breakdown)] == IF k = 0 THEN 0 ELSE f[k - 1] + breakdown[k].qty
    IN  f[Len(breakdown)]

\* C13: the breakdown of a SELL line takes from each lot at most what the lot has and
\* sums to min(quantity, available stock); whenever it sums to less than the quantity,
\* stock validation reports an error for the line.
C13_PartialAllocationReported ==
    fBreakdown # <<>> =>
        LET b == fBreakdown[1]
        IN  /\ Len(b) <= LotRank(fQueue, Len(fQueue))
            /\ \A i \in DOMAIN fQueue : ShownFor(b, fQueue, i) <= fQueue[i].availableStock
            /\ SumQty(b) = Min(fQuantity, QueueStock(fQueue))
            /\ (fValidation # <<>> /\ SumQty(b) < fQuantity) =>
                   /\ ~fValidation.isValid
                   /\ \E k \in DOMAIN fValidation.errors : fValidation.errors[k].item = 1

\* 4 units asked of a variant with 3 in two lots: the breakdown shows 3, validation
\* has an error for the line
C13_Witness ==
    /\ fBreakdown # <<>>
    /\ fValidation # <<>>
    /\ fQuantity = 4
    /\ QueueStock(fQueue) = 3
    /\ Len(fBreakdown[1]) = 2
    /\ SumQty(fBreakdown[1]) = 3
    /\ ~fValidation.isValid

\* C14: computing the stock total, the estimated price or the allocation breakdown of a
\* line leaves the quantities of every stock lot and purchase record of the reference
\* data as they were loaded, and computing the allocation again gives the same result.
C14_LedgerNeverMutated ==
    /\ lItems = lLoaded
    /\ (lSelected # <<>> /\ fQuantity > 0) =>
           LegacyRow(lItems, lStock, fQuantity)[1] = lSelected

-----------------------------------------------------------------------------
(* The payload of a submission                                              *)

\* the submissions whose cart is still the one they were started from
Untouched == {i \in DOMAIN pending : ~pending[i].touched}

CashCounterId == FindByType(FormAccounts, "CASH_COUNTER").id

\* C15: a SELL order submitted with a default entity, a CASH_COUNTER account existing,
\* has a payload with exactly one payment, against the cash counter account, of the
\* grand total of the cart at the time of submission, whatever payments the cart holds.
C15_PosFastPath ==
    \A i \in Untouched :
        (orderType = "SELL" /\ isDefault(pending[i].cart.entity) /\ CashCounterId # "") =>
            pending[i].payload.payments =
                <<[accountId |-> CashCounterId,
                   amount |-> Calculations(formName, pending[i].cart).grandTotal]>>

\* the same statement for the carts all of whose lines have a product and a variant
C15_PosFastPathSelectedLines ==
    \A i \in Untouched :
        (/\ orderType = "SELL" /\ isDefault(pending[i].cart.entity) /\ CashCounterId # ""
         /\ \A k \in DOMAIN pending[i].cart.products :
                FullySpecified(pending[i].cart.products[k])) =>
            pending[i].payload.payments =
                <<[accountId |-> CashCounterId,
                   amount |-> Calculations(formName, pending[i].cart).grandTotal]>>

\* the charges of the cart that the entity pays
EntityPaid(cart) == SelectSeq(cart.charges, LAMBDA charge : ~charge.isPaidByBusiness)

\* C16: every charge of the payload comes from a charge of the cart that the business
\* does not absorb and carries isPaidByBusiness = false; no charge absorbed by the
\* business is in the payload.
C16_PayloadCharges ==
    \A i \in Untouched :
        LET sent == pending[i].payload.charges
            own == EntityPaid(pending[i].cart)
        IN  /\ Len(sent) <= Len(own)
            /\ \A k \in DOMAIN sent :
                   /\ ~sent[k].isPaidByBusiness
                   /\ \E j \in DOMAIN own : /\ j >= k
                                            /\ own[j].name = sent[k].name
                                            /\ own[j].amount = sent[k].amount
            /\ Len(own) = 0 => sent = <<>>

\* a submitted cart with a charge of 1 absorbed by the business and a charge of 1 paid
\* by the entity: the payload has one charge
C16_Witness ==
    \E i \in Untouched :
        /\ Len(pending[i].cart.charges) = 2
        /\ pending[i].cart.charges[1].isPaidByBusiness
        /\ pending[i].cart.charges[1].amount > 0
        /\ ~pending[i].cart.charges[2].isPaidByBusiness
        /\ pending[i].cart.charges[2].amount > 0
        /\ Len(pending[i].payload.charges) = 1

-----------------------------------------------------------------------------
(* The follow-up transaction of the vendor charges                          *)

\* C17: when an order is created from a cart whose vendor charges are > 0, exactly one
\* follow-up transaction is posted, against the chosen account, with the vendor charges
\* as amount and type BUY; when the vendor charges are 0 none is posted.
C17_VendorChargesFollowUp ==
    (last.op = "handleSubmit:succeeded" /\ last.created) =>
        IF last.vendorCharges > 0
        THEN /\ Len(last.posted) = 1
             /\ last.posted[1].amount = last.vendorCharges
             /\ last.posted[1].type = "BUY"
             /\ last.posted[1].accountId # NoAccountId
        ELSE last.posted = <<>>

\* the same statement for the purchases of BuyOrderForm
C17_VendorChargesFollowUpBuy ==
    (formName = "BuyOrderForm" /\ orderType = "BUY") => C17_VendorChargesFollowUp

-----------------------------------------------------------------------------
(* The steps of the form                                                    *)

StepMoves == {<<"details", "payment">>, <<"payment", "summary">>,
              <<"payment", "details">>, <<"summary", "payment">>}

\* C18: the current step changes only by details -> payment, payment -> summary,
\* payment -> details, summary -> payment, or to details through the reset or a
\* successful submission; an order is submitted only from the summary step.
C18_StepLinearity ==
    [][/\ currentStep' # currentStep =>
              \/ <<currentStep, currentStep'>> \in StepMoves
              \/ /\ currentStep' = "details"
                 /\ last'.op \in {"resetForm", "handleSubmit:succeeded"}
       /\ Len(pending') > Len(pending) => currentStep = "summary"]_vars

\* a submission succeeded while the form was on the summary step, which took the form
\* back to the details step
C18_Witness ==
    /\ last.op = "handleSubmit:succeeded"
    /\ ~last.touched
    /\ currentStep = "details"

-----------------------------------------------------------------------------
(* The discount and the tax of CalculationSelector following the subtotal   *)
(* (calculation-selector.tsx, as CreateOrder mounts it).  In this           *)
(* specification the cart keeps discount, discountPercentage, tax and       *)
(* taxPercentage in hundredths; the subtotal is in whole units.             *)

MaxSyncValue == 10000

SyncRates == {0, 100, 200}
SyncInputs == {0, 10}

\* createInitialFormState, the fields CalculationSelector is given
SyncInitialState ==
    [products |-> <<EmptySlot>>,
     discount |-> 0, discountType |-> "fixed", discountPercentage |-> 0,
     tax |-> 0, taxType |-> "percentage", taxPercentage |-> 0]

\* (subTotal * percentage) / 100
AmountOf(subTotal, percentage) == (subTotal * percentage) \div 100

\* (amount / subTotal) * 100
PercentageOf(amount, subTotal) == (amount * 100) \div subTotal

\* the two quotients are whole in hundredths
WholeAmount(subTotal, percentage) == (subTotal * percentage) % 100 = 0
WholePercentage(amount, subTotal) == subTotal > 0 => (amount * 100) % subTotal = 0

\* the effect of CalculationSelector on discount and tax: <<cart, prevSubTotalRef>>
\* after it ran
SubtotalSync(cart, ref) ==
    LET subTotal == calculateSubTotal(cart.products)
        withDiscount ==
            IF cart.discountType = "fixed" /\ cart.discount > 0
            THEN [cart EXCEPT !.discountPercentage = PercentageOf(cart.discount, subTotal)]
            ELSE IF cart.discountType = "percentage" /\ cart.discountPercentage > 0
            THEN [cart EXCEPT !.discount = AmountOf(subTotal, cart.discountPercentage)]
            ELSE cart
        withTax ==
            IF cart.taxType = "fixed" /\ cart.tax > 0
            THEN [withDiscount EXCEPT !.taxPercentage = PercentageOf(cart.tax, subTotal)]
            ELSE IF cart.taxType = "percentage" /\ cart.taxPercentage > 0
            THEN [withDiscount EXCEPT !.tax = AmountOf(subTotal, cart.taxPercentage)]
            ELSE withDiscount
    IN  IF ref # subTotal /\ subTotal > 0 THEN <<withTax, subTotal>> ELSE <<cart, ref>>

\* the quotients the effect takes for `cart` are whole, and the values stay in range
SyncWhole(cart, ref) ==
    LET subTotal == calculateSubTotal(cart.products)
    IN  /\ (ref # subTotal /\ subTotal > 0) =>
               /\ (cart.discountType = "fixed" /\ cart.discount > 0) =>
                      WholePercentage(cart.discount, subTotal)
               /\ (cart.discountType = "percentage") =>
                      WholeAmount(subTotal, cart.discountPercentage)
               /\ (cart.taxType = "fixed" /\ cart.tax > 0) =>
                      WholePercentage(cart.tax, subTotal)
               /\ (cart.taxType = "percentage") => WholeAmount(subTotal, cart.taxPercentage)
        /\ \A value \in {SubtotalSync(cart, ref)[1].discount,
                          SubtotalSync(cart, ref)[1].discountPercentage,
                          SubtotalSync(cart, ref)[1].tax,
                          SubtotalSync(cart, ref)[1].taxPercentage} : value <= MaxSyncValue

\* a handler sets the cart to newCart, the form renders and the effect runs; `last`
\* keeps the subtotal, the discount and the tax of before
SyncStep(op, newCart) ==
    /\ SyncWhole(newCart, prevSubTotalRef)
    /\ formState' = SubtotalSync(newCart, prevSubTotalRef)[1]
    /\ prevSubTotalRef' = SubtotalSync(newCart, prevSubTotalRef)[2]
    /\ last' = [op |-> op, subTotal |-> calculateSubTotal(formState.products),
                discount |-> formState.discount, tax |-> formState.tax]
    /\ UNCHANGED <<formName, orderType, currentStep, error, loading,
                   isAccountSelectionActive, selectedVendorAccount, pending, pureVars>>

\* the rate input of the first row
SyncRateChange(newRate) ==
    /\ currentStep = "details"
    /\ SyncStep("handleRateChange",
                [formState EXCEPT !.products = handleRateChange(@, 1, newRate)])

\* the button Fixed (Rs)
DiscountFixedClick ==
    LET subTotal == calculateSubTotal(formState.products)
    IN  /\ WholePercentage(formState.discount, subTotal)
        /\ SyncStep("discountType",
                    [formState EXCEPT
                        !.discountType = "fixed",
                        !.discountPercentage =
                            IF subTotal > 0 THEN PercentageOf(formState.discount, subTotal)
                            ELSE @])

\* the button Percentage (%)
DiscountPercentageClick ==
    LET subTotal == calculateSubTotal(formState.products)
    IN  /\ WholeAmount(subTotal, formState.discountPercentage)
        /\ SyncStep("discountType",
                    [formState EXCEPT
                        !.discountType = "percentage",
                        !.discount = AmountOf(subTotal, formState.discountPercentage)])

\* onChange of the discount input, val in units or in percent
DiscountInput(val) ==
    LET subTotal == calculateSubTotal(formState.products)
    IN  IF formState.discountType = "fixed"
        THEN /\ WholePercentage(Hundredths(val), subTotal)
             /\ SyncStep("discount",
                         [formState EXCEPT
                             !.discount = Hundredths(val),
                             !.discountPercentage =
                                 IF subTotal > 0 THEN PercentageOf(Hundredths(val), subTotal)
                                 ELSE @])
        ELSE /\ WholeAmount(subTotal, Hundredths(val))
             /\ SyncStep("discount",
                         [formState EXCEPT
                             !.discountPercentage = Hundredths(val),
                             !.discount = AmountOf(subTotal, Hundredths(val))])

\* the tax select
SyncSelectTaxRate(val) ==
    LET subTotal == calculateSubTotal(formState.products)
    IN  /\ currentStep = "details"
        /\ SyncStep("tax",
                    [formState EXCEPT !.taxType = "percentage",
                                      !.taxPercentage = Hundredths(val),
                                      !.tax = AmountOf(subTotal, Hundredths(val))])

\* CreateOrder is mounted on an empty cart; the ref starts at the subtotal, 0
SyncInit ==
    /\ formName = "CreateOrder"
    /\ orderType = "BUY"
    /\ formState = SyncInitialState
    /\ currentStep = "details"
    /\ error = NoError
    /\ loading = FALSE
    /\ isAccountSelectionActive = FALSE
    /\ selectedVendorAccount = NoAccountId
    /\ prevSubTotalRef = 0
    /\ pending = <<>>
    /\ last = [op |-> "mount", subTotal |-> 0, discount |-> 0, tax |-> 0]
    /\ entityOrders = <<>> /\ SettleIdle
    /\ PricingOff /\ StockOff /\ BalanceOff /\ FifoOff /\ ExtraOff

SyncNext ==
    \/ \E newRate \in SyncRates : SyncRateChange(newRate)
    \/ DiscountFixedClick
    \/ DiscountPercentageClick
    \/ \E val \in SyncInputs : DiscountInput(val)
    \/ \E val \in TaxRates : SyncSelectTaxRate(val)

SpecSync == SyncInit /\ [][SyncNext]_vars

(* ---- properties of the re-sync ---- *)

\* the amount and the percentage of a discount or tax agree for the subtotal
Mirrors(kind, amount, percentage, subTotal, amountBefore) ==
    IF kind = "percentage" THEN 100 * amount = subTotal * percentage
    ELSE /\ amount = amountBefore
         /\ subTotal > 0 => subTotal * percentage = 100 * amount

ResyncedNow ==
    LET subTotal == calculateSubTotal(formState.products)
    IN  /\ Mirrors(formState.discountType, formState.discount,
                   formState.discountPercentage, subTotal, last.discount)
        /\ Mirrors(formState.taxType, formState.tax, formState.taxPercentage, subTotal,
                   last.tax)

\* C20: after an edit of the cart that changes the subtotal, a discount (tax) given as a
\* percentage has its amount equal to new subtotal * percentage / 100, and one given as
\* an amount keeps the amount and has its percentage equal to amount / new subtotal *
\* 100, for every new subtotal, 0 and a later rise included.
C20_ReactiveResync ==
    (last.op = "handleRateChange"
     /\ last.subTotal # calculateSubTotal(formState.products)) => ResyncedNow

\* the same statement for the edits that take the subtotal from one value > 0 to
\* another, a discount given as an amount being > 0
C20_ReactiveResyncPositive ==
    (last.op = "handleRateChange"
     /\ last.subTotal # calculateSubTotal(formState.products)
     /\ last.subTotal > 0
     /\ calculateSubTotal(formState.products) > 0
     /\ (formState.discountType = "fixed" => formState.discount > 0)) => ResyncedNow

\* the subtotal went from 100 to 200 under a discount of 10 percent and a tax of 13
\* percent
C20_PositiveWitness ==
    /\ last.op = "handleRateChange"
    /\ last.subTotal = 100
    /\ calculateSubTotal(formState.products) = 200
    /\ formState.discountType = "percentage"
    /\ formState.discountPercentage = 1000
    /\ formState.discount = 2000
    /\ formState.taxPercentage = 1300
    /\ formState.tax = 2600

-----------------------------------------------------------------------------
(* The quantity controls of a row (product-details.tsx, ProductItemRow)     *)

\* what parseInt gives for the text typed into the quantity input
TypedQuantities == -1..3

\* CreateOrder is mounted on an empty cart
QuantityInit ==
    /\ formName = "CreateOrder"
    /\ orderType \in {"BUY", "SELL"}
    /\ formState = createInitialFormState(formName, NoEntity)
    /\ currentStep = "details"
    /\ error = NoError
    /\ loading = FALSE
    /\ isAccountSelectionActive = FALSE
    /\ selectedVendorAccount = NoAccountId
    /\ prevSubTotalRef = 0
    /\ pending = <<>>
    /\ last = [op |-> "mount"]
    /\ entityOrders = <<>> /\ SettleIdle
    /\ PricingOff /\ StockOff /\ BalanceOff /\ FifoOff /\ ExtraOff

QuantityNext ==
    \/ AddEmptySlot
    \/ \E index \in 1..MaxFormItems : RemoveProduct(index)
    \/ GlobalSelect("p1", "v1")
    \/ \E index \in 1..MaxFormItems : ProductSelect(index, "p1")
    \/ \E index \in 1..MaxFormItems : QuantityMinus(index)
    \/ \E index \in 1..MaxFormItems : QuantityPlus(index)
    \/ \E index \in 1..MaxFormItems, quantity \in TypedQuantities :
           QuantityTyped(index, quantity)
    \/ \E index \in 1..MaxFormItems : QuantityBlur(index)

SpecQuantity == QuantityInit /\ [][QuantityNext]_vars

\* C21: in every reachable state of the cart every line item has a quantity >= 1, and
\* for a SELL order every line item with a resolved variant has a quantity that does
\* not exceed the available stock of the variant.
C21_QuantityInvariant ==
    \A index \in DOMAIN formState.products :
        LET item == formState.products[index]
            variant == variantMapGet(FormProducts, item.variantId)
        IN  /\ item.quantity >= 1
            /\ (orderType = "SELL" /\ IsVariant(variant)) =>
                   item.quantity <= getVariantStock(variant.stock_fifo_queue)

\* ---- the draft of the cart in localStorage ----

MaxDraftItems == 2

\* localStorage.getItem(`CART-${orgId}-${type}`): null, or a string described by what
\* JSON.parse does with it
NoItem == [kind |-> "absent"]
EmptyText == [kind |-> "empty"]
Unparseable == [kind |-> "garbage"]
JsonText(value) == [kind |-> "json", value |-> value]
JsonNull == [t |-> "null"]
JsonNumber == [t |-> "number"]
JsonArray == [t |-> "array"]
JsonObject(fields) == [t |-> "object", fields |-> fields]

\* JSON.stringify(formState); the null entity is the empty entity of the model
Stringify(cart) == JsonText(JsonObject(cart))

\* JSON.parse(savedState): a SyntaxError for text that is not JSON
Parse(item) ==
    IF item.kind = "json" THEN [threw |-> FALSE, value |-> item.value] ELSE [threw |-> TRUE]

\* parsed.<field> is defined: only an object has the fields of a cart
Has(parsed, field) == parsed.t = "object" /\ field \in DOMAIN parsed.fields

\* parsed.<field> || fallback, for a field holding a string or an entity
StrOr(parsed, field, fallback) ==
    IF Has(parsed, field) /\ parsed.fields[field] # "" THEN parsed.fields[field] ELSE fallback

\* parsed.<field> || fallback, for a field holding a number
NumOr(parsed, field, fallback) ==
    IF Has(parsed, field) /\ parsed.fields[field] # 0 THEN parsed.fields[field] ELSE fallback

\* parsed.<field> || fallback, for a field holding an array (an array is truthy)
SeqOr(parsed, field, fallback) ==
    IF Has(parsed, field) THEN parsed.fields[field] ELSE fallback

\* the object literal of the try block; reading a property of null is a TypeError
Rehydrate(parsed, defaultEntity) ==
    IF parsed.t = "null" THEN [threw |-> TRUE]
    ELSE [threw |-> FALSE,
          state |-> [entity |-> IF defaultEntity # NoEntity THEN defaultEntity
                                ELSE StrOr(parsed, "entity", NoEntity),
                     products |-> SeqOr(parsed, "products", <<EmptySlot>>),
                     discount |-> NumOr(parsed, "discount", 0),
                     tax |-> NumOr(parsed, "tax", 0),
                     taxType |-> StrOr(parsed, "taxType", "percentage"),
                     taxPercentage |-> NumOr(parsed, "taxPercentage", 0),
                     charges |-> SeqOr(parsed, "charges", <<>>),
                     payments |-> SeqOr(parsed, "payments", <<>>)]]

\* the try block without its catch
TryBlock(item, defaultEntity) ==
    LET parsed == Parse(item)
    IN  IF parsed.threw THEN [threw |-> TRUE] ELSE Rehydrate(parsed.value, defaultEntity)

createInitialFormStateUncaught(item, defaultEntity) ==
    IF item.kind \in {"absent", "empty"}
    THEN [threw |-> FALSE, state |-> createInitialFormState("CreateOrder", defaultEntity)]
    ELSE TryBlock(item, defaultEntity)

\* createInitialFormState of CreateOrder with the stored item; the catch logs the error
\* and falls through to the default state
createInitialFormStateFromStorage(item, defaultEntity) ==
    LET attempt == TryBlock(item, defaultEntity)
    IN  IF item.kind \in {"absent", "empty"} \/ attempt.threw
        THEN [threw |-> FALSE, state |-> createInitialFormState("CreateOrder", defaultEntity)]
        ELSE attempt

\* what the storage may hold when the form is mounted for the first time
StoredDrafts ==
    {NoItem, EmptyText, Unparseable, JsonText(JsonNull), JsonText(JsonNumber),
     JsonText(JsonArray), JsonText(JsonObject([discount |-> 5])),
     Stringify([resetState("CreateOrder") EXCEPT !.entity = "e1"])}

DraftEntities == {"walkin", "e1"}
DraftPaymentLists == {<<>>, <<[accountId |-> "a1", amount |-> 200]>>}

DraftInit ==
    /\ dSaved \in StoredDrafts
    /\ dMounted = FALSE
    /\ dCart = <<>>
    /\ dDefault \in DraftEntities \cup {NoEntity}
    /\ dType \in {"BUY", "SELL"}
    /\ dPending = <<>>
    /\ dLast = [op |-> "init"]
    /\ entityOrders = <<>> /\ SettleIdle
    /\ PricingOff /\ StockOff /\ BalanceOff /\ FormOff /\ FifoOff /\ RoleOff

DraftFrame == UNCHANGED <<dDefault, dType, settleVars, pricingVars, stockVars, balanceVars,
                          formVars, fifoVars, roleVars>>

\* setFormState followed by the persistence effect
SetFormState(cart) ==
    /\ dCart' = cart
    /\ dSaved' = Stringify(cart)

\* the form is mounted: the initializer of useState, then the effects of the mount (the
\* persistence effect, the cash counter effect, and the persistence effect again)
DraftMount ==
    /\ ~dMounted
    /\ LET initial == createInitialFormStateFromStorage(dSaved, dDefault)
       IN  IF initial.threw
           THEN /\ dLast' = [op |-> "mount", item |-> dSaved, threw |-> TRUE]
                /\ UNCHANGED <<dMounted, dCart, dSaved>>
           ELSE /\ dMounted' = TRUE
                /\ SetFormState(CashCounterEffect(dType, dDefault, FormAccounts, initial.state))
                /\ dLast' = [op |-> "mount", item |-> dSaved, threw |-> FALSE,
                             initial |-> initial.state,
                             left |-> IF dLast.op = "unmount" THEN <<dLast.cart>> ELSE <<>>]
    /\ UNCHANGED dPending
    /\ DraftFrame

\* the user leaves the page; a request in flight goes on without its component
DraftUnmount ==
    /\ dMounted
    /\ dMounted' = FALSE
    /\ dCart' = <<>>
    /\ dPending' = IF dPending = <<>> THEN <<>> ELSE <<[dPending[1] EXCEPT !.orphan = TRUE]>>
    /\ dLast' = [op |-> "unmount", cart |-> dCart]
    /\ UNCHANGED dSaved
    /\ DraftFrame

\* the page is mounted and not disabled by a submission of this component
DraftEnabled == dMounted /\ (IF dPending = <<>> THEN TRUE ELSE dPending[1].orphan)

DraftEdit(cart, op) ==
    /\ DraftEnabled
    /\ cart # dCart
    /\ SetFormState(cart)
    /\ dLast' = [op |-> op]
    /\ UNCHANGED <<dMounted, dPending>>
    /\ DraftFrame

DraftSelectEntity(entity) == DraftEdit([dCart EXCEPT !.entity = entity], "edit")

DraftGlobalSelect(productId, variantId) ==
    /\ dMounted
    /\ IF Len(dCart.products) < MaxDraftItems THEN TRUE ELSE FindIndex(dCart.products, 1) # 0
    /\ DraftEdit([dCart EXCEPT !.products = handleGlobalSelect(dType, dCart.products,
                                                               productId, variantId)], "edit")

DraftPayments(payments) == DraftEdit([dCart EXCEPT !.payments = payments], "edit")

\* the Clear Form button: resetForm
DraftReset ==
    /\ DraftEnabled
    /\ SetFormState(resetState("CreateOrder"))
    /\ dLast' = [op |-> "reset"]
    /\ UNCHANGED <<dMounted, dPending>>
    /\ DraftFrame

\* handleSubmit up to its await; the steps before the summary are not part of the draft
DraftSubmit ==
    /\ DraftEnabled
    /\ dPending = <<>>
    /\ \E index \in DOMAIN dCart.products : dCart.products[index].productId # ""
    /\ dPending' = <<[cart |-> dCart, orphan |-> FALSE]>>
    /\ dLast' = [op |-> "submit"]
    /\ UNCHANGED <<dMounted, dCart, dSaved>>
    /\ DraftFrame

\* onSubmit resolves: resetForm; setFormState of a component that was unmounted does
\* nothing and runs no effect
DraftSubmitted ==
    /\ dPending # <<>>
    /\ IF dPending[1].orphan
       THEN UNCHANGED <<dCart, dSaved>>
       ELSE SetFormState(resetState("CreateOrder"))
    /\ dPending' = <<>>
    /\ dLast' = [op |-> "submitted", cart |-> dPending[1].cart]
    /\ UNCHANGED dMounted
    /\ DraftFrame

\* onSubmit rejects: the cart is kept
DraftRejected ==
    /\ dPending # <<>>
    /\ dPending' = <<>>
    /\ dLast' = [op |-> "rejected"]
    /\ UNCHANGED <<dMounted, dCart, dSaved>>
    /\ DraftFrame

DraftNext ==
    \/ DraftMount
    \/ DraftUnmount
    \/ \E entity \in DraftEntities : DraftSelectEntity(entity)
    \/ DraftGlobalSelect("p1", "v1")
    \/ \E payments \in DraftPaymentLists : DraftPayments(payments)
    \/ DraftReset
    \/ DraftSubmit
    \/ DraftSubmitted
    \/ DraftRejected

SpecDraft == DraftInit /\ [][DraftNext]_vars

\* the cart is the empty cart: one empty line item, zero discount and tax, no charges,
\* no payments
IsEmptyCart(cart) ==
    /\ cart.products = <<EmptySlot>>
    /\ cart.discount = 0 /\ cart.tax = 0
    /\ cart.charges = <<>> /\ cart.payments = <<>>

\* C22, first half: while the form is mounted the stored draft is the current cart.
C22_DraftFollowsCart == dMounted => dSaved = Stringify(dCart)

\* C22, the remount: the cart rehydrated by a remount is the cart the form had when it
\* was left.
C22_RemountRehydrates ==
    (dLast.op = "mount" /\ dLast.left # <<>>) => dLast.initial = dLast.left[1]

\* C22, second half: after a successful submission or a reset the stored draft is the
\* empty cart.
C22_ClearedAfterSubmission ==
    dLast.op \in {"submitted", "reset"} =>
        dSaved.kind = "json" /\ dSaved.value.t = "object" /\ IsEmptyCart(dSaved.value.fields)

\* C22: after every cart mutation the stored draft equals the current cart, so that a
\* remount rehydrates the same cart; after a successful submission or a reset the
\* stored draft is the empty cart.
C22_DraftLifecycle ==
    /\ C22_DraftFollowsCart
    /\ C22_RemountRehydrates
    /\ C22_ClearedAfterSubmission

\* C23: for every stored draft (absent, text that is not JSON, JSON that is not a cart
\* object) createInitialFormState returns without throwing, and for text that is not
\* JSON it returns the default empty cart.
C23_MalformedDraft ==
    dLast.op = "mount" =>
        /\ ~dLast.threw
        /\ dLast.item.kind = "garbage" => IsEmptyCart(dLast.initial)

C23_Witness ==
    /\ dLast.op = "mount"
    /\ dLast.item.kind = "garbage"
    /\ dMounted
    /\ IsEmptyCart(dLast.initial)

\* ---- calculateSubTotal over the numbers of JavaScript ----

MaxSubTotalItems == 2

\* a number of JavaScript: a value, or NaN (parseInt of an empty input, a missing field)
Num(v) == [nan |-> FALSE, v |-> v]
NaN == [nan |-> TRUE, v |-> 0]
isNaN(x) == x.nan
Times(a, b) == IF a.nan \/ b.nan THEN NaN ELSE Num(a.v * b.v)
Plus(a, b) == IF a.nan \/ b.nan THEN NaN ELSE Num(a.v + b.v)

\* the callback of the reduce without the isNaN test
AddAmountUnguarded(sum, product) == Plus(sum, Times(product.rate, product.quantity))

\* (sum, product) => { const amount = ...; return sum + (isNaN(amount) ? 0 : amount) }
AddAmount(sum, product) ==
    LET amount == Times(product.rate, product.quantity)
    IN  Plus(sum, IF isNaN(amount) THEN Num(0) ELSE amount)

RECURSIVE Reduce(_, _, _)
\* products.reduce(callback, sum), from position `index`
Reduce(products, index, sum) ==
    IF index > Len(products) THEN sum
    ELSE Reduce(products, index + 1, AddAmount(sum, products[index]))

calculateSubTotalOfNumbers(products) == Reduce(products, 1, Num(0))

SubTotalNumbers == {NaN, Num(0), Num(2), Num(150)}
SubTotalItems == [rate : SubTotalNumbers, quantity : SubTotalNumbers]

SubTotalInit ==
    /\ pForm = "CreateOrder"
    /\ pCart \in SeqsUpTo(SubTotalItems, MaxSubTotalItems)
    /\ pCalc = <<>>
    /\ entityOrders = <<>> /\ SettleIdle
    /\ StockOff /\ BalanceOff /\ FormOff /\ FifoOff /\ ExtraOff

ComputeSubTotal ==
    /\ pCalc = <<>>
    /\ pCalc' = <<calculateSubTotalOfNumbers(pCart)>>
    /\ UNCHANGED <<pForm, pCart, settleVars, stockVars, balanceVars, formVars, fifoVars,
                   extraVars>>

SpecSubTotal == SubTotalInit /\ [][ComputeSubTotal]_vars

\* quantity * rate of a line item, 0 when it is not a number
LineAmount(product) ==
    IF product.rate.nan \/ product.quantity.nan THEN 0
    ELSE product.rate.v * product.quantity.v

RECURSIVE SumOfLineAmounts(_)
SumOfLineAmounts(products) ==
    IF products = <<>> THEN 0
    ELSE SumOfLineAmounts(Tail(products)) + LineAmount(Head(products))

\* C24: calculateSubTotal is the sum of quantity * rate over the line items, where a
\* line whose product is not a number counts as 0, and the total is never NaN.
C24_SubTotalAdditive ==
    pCalc # <<>> =>
        /\ ~isNaN(pCalc[1])
        /\ pCalc[1].v = SumOfLineAmounts(pCart)

C24_Witness ==
    /\ pCalc # <<>>
    /\ Len(pCart) = 2
    /\ isNaN(pCart[1].quantity)
    /\ pCalc[1] = Num(300)

\* C25: resetting the form leaves step details, no error, no entity, one empty line
\* item, zero discount and tax, no charges and no payments, and a second reset right
\* after the first changes nothing.
C25_IdempotentReset ==
    [][last'.op = "resetForm" =>
          /\ currentStep' = "details"
          /\ error' = NoError
          /\ formState'.entity = NoEntity
          /\ IsEmptyCart(formState')
          /\ last.op = "resetForm" =>
                 UNCHANGED <<formState, currentStep, error, loading, selectedVendorAccount,
                             isAccountSelectionActive>>]_vars

C25_Witness ==
    /\ last.op = "resetForm"
    /\ last.again
    /\ formState = resetState(formName)

\* C26, the submit attempt: in the BUY form with vendor charges and no vendor account,
\* a click on Confirm opens the account dialog and submits nothing.
C26_SubmitOpensDialog ==
    [][(/\ last'.op = "handleSubmit"
        /\ formName = "BuyOrderForm" /\ orderType = "BUY"
        /\ Calculations(formName, formState).vendorCharges > 0
        /\ selectedVendorAccount = NoAccountId)
       => (isAccountSelectionActive' /\ Len(pending') = Len(pending) /\ ~loading')]_vars

\* C26, the selection: selecting an account with a sufficient balance in the dialog
\* closes the dialog and submits the order with that account for the vendor charges.
C26_SelectionSubmits ==
    [][last'.op = "handleVendorAccountSelect"
       => /\ ~isAccountSelectionActive'
          /\ Len(pending') = Len(pending) + 1
          /\ pending'[Len(pending')].vendorAccount = selectedVendorAccount']_vars

\* C26: with vendor charges and no vendor account a submit attempt opens the account
\* dialog without submitting, and selecting an account with a sufficient balance then
\* closes the dialog and submits the order with that account, with no further action
\* of the user.
C26_VendorAccountFlow == C26_SubmitOpensDialog /\ C26_SelectionSubmits

\* ---- the permission checkboxes of the role editor ----

\* a permission `${category}_${level}`: permission.split("_"), the last part is the
\* level and the parts before it are the category
Permission(category, level) == [category |-> category, level |-> level]

AVAILABLE_PERMISSIONS ==
    {Permission("ORGANIZATION", level) : level \in {"UPDATE", "ADMIN"}}
    \cup {Permission(category, level) :
            category \in {"ACCOUNT", "PRODUCT", "ENTITY", "ORDER", "POS", "EXPENSE"},
            level \in {"READ", "CREATE", "UPDATE"}}

LevelsBelow(level) ==
    CASE level = "CREATE" -> {"READ"}
      [] level = "UPDATE" -> {"READ", "CREATE"}
      [] level = "ADMIN" -> {"READ", "CREATE", "UPDATE"}
      [] OTHER -> {}

LevelsAbove(level) ==
    CASE level = "READ" -> {"CREATE", "UPDATE", "ADMIN"}
      [] level = "CREATE" -> {"UPDATE", "ADMIN"}
      [] level = "UPDATE" -> {"ADMIN"}
      [] OTHER -> {}

getPermissionDependencies(permission) ==
    {Permission(permission.category, level) : level \in LevelsBelow(permission.level)}

\* the dependencies, kept only when AVAILABLE_PERMISSIONS offers them
getOfferedDependencies(permission) ==
    getPermissionDependencies(permission) \cap AVAILABLE_PERMISSIONS

getPermissionDependents(permission) ==
    {Permission(permission.category, level) : level \in LevelsAbove(permission.level)}
        \cap AVAILABLE_PERMISSIONS

\* the updater of handlePermissionToggle; formData.permissions holds no permission
\* twice, and only its membership is read
handlePermissionToggle(permissions, permission) ==
    IF permission \in permissions
    THEN permissions \ ({permission} \cup getPermissionDependents(permission))
    ELSE IF permission = Permission("ORGANIZATION", "ADMIN")
         THEN AVAILABLE_PERMISSIONS
         ELSE permissions \cup {permission} \cup getPermissionDependencies(permission)

\* the dialog is opened for a new role
RoleInit ==
    /\ rSelected = {}
    /\ rLast = [op |-> "handleOpenDialog"]
    /\ entityOrders = <<>> /\ SettleIdle
    /\ PricingOff /\ StockOff /\ BalanceOff /\ FormOff /\ FifoOff /\ DraftOff

RoleFrame == UNCHANGED <<settleVars, pricingVars, stockVars, balanceVars, formVars,
                         fifoVars, draftVars>>

\* a click on the checkbox of a permission
PermissionToggle(permission) ==
    /\ rSelected' = handlePermissionToggle(rSelected, permission)
    /\ rLast' = [op |-> IF permission \in rSelected THEN "deselect" ELSE "select"]
    /\ RoleFrame

\* handleCloseDialog, then handleOpenDialog() for a new role
ReopenDialog ==
    /\ rLast.op # "handleOpenDialog"
    /\ rSelected' = {}
    /\ rLast' = [op |-> "handleOpenDialog"]
    /\ RoleFrame

RoleNext ==
    \/ \E permission \in AVAILABLE_PERMISSIONS : PermissionToggle(permission)
    \/ ReopenDialog

SpecRole == RoleInit /\ [][RoleNext]_vars

\* C27, the closure: every selected permission has the dependencies that
\* AVAILABLE_PERMISSIONS offers selected.
C27_ClosedUnderOfferedDependencies ==
    \A permission \in rSelected : getOfferedDependencies(permission) \subseteq rSelected

\* C27, the range: only permissions offered in AVAILABLE_PERMISSIONS are selected.
C27_OnlyOfferedPermissions == rSelected \subseteq AVAILABLE_PERMISSIONS

\* C27: starting from the empty selection, after any sequence of toggles the selection
\* is closed under dependencies (where they exist) and holds only permissions offered
\* in AVAILABLE_PERMISSIONS.
C27_DependencyClosure ==
    /\ C27_ClosedUnderOfferedDependencies
    /\ C27_OnlyOfferedPermissions

RECURSIVE RequestedQuantity(_, _)
\* the quantity requested of the variant over all the line items
RequestedQuantity(addedProducts, variantId) ==
    IF addedProducts = <<>> THEN 0
    ELSE (IF Head(addedProducts).variantId = variantId THEN Head(addedProducts).quantity ELSE 0)
         + RequestedQuantity(Tail(addedProducts), variantId)

\* C28: for a SELL order, on the payment and summary steps, the quantity requested of
\* each variant over all the line items does not exceed the available stock of the
\* variant.
C28_AggregateStock ==
    (orderType = "SELL" /\ currentStep \in {"payment", "summary"}) =>
        \A index \in DOMAIN FlatVariants(FormProducts) :
            LET variant == FlatVariants(FormProducts)[index]
            IN  RequestedQuantity(formState.products, variant.id)
                    <= getVariantStock(variant.stock_fifo_queue)

\* ---- BalanceSummary next to validateAccountBalances ----

RECURSIVE FindAccount(_, _)
\* accounts.find((acc) => acc.id === accountId): the first account with the id
FindAccount(accounts, accountId) ==
    IF accounts = <<>> THEN NoAccount
    ELSE IF Head(accounts).id = accountId THEN Head(accounts)
    ELSE FindAccount(Tail(accounts), accountId)

RECURSIVE IndexOfKey(_, _, _)
\* the position of the key in the entries of the Map, 0 when it has none
IndexOfKey(entries, accountId, index) ==
    IF index > Len(entries) THEN 0
    ELSE IF entries[index].accountId = accountId THEN index
    ELSE IndexOfKey(entries, accountId, index + 1)

\* accountPayments.set(accountId, (accountPayments.get(accountId) || 0) + amount):
\* a Map keeps its keys in the order of their first insertion
MapAdd(entries, payment) ==
    LET index == IndexOfKey(entries, payment.accountId, 1)
    IN  IF index = 0
        THEN Append(entries, [accountId |-> payment.accountId, total |-> payment.amount])
        ELSE [entries EXCEPT ![index].total = @ + payment.amount]

RECURSIVE AccountPayments(_, _, _)
\* payments.forEach over the Map, from position `index`
AccountPayments(payments, index, entries) ==
    IF index > Len(payments) THEN entries
    ELSE AccountPayments(payments, index + 1, MapAdd(entries, payments[index]))

RECURSIVE Summaries(_, _)
\* accountPayments.forEach: one summary for each key that is the id of an account
Summaries(entries, accounts) ==
    IF entries = <<>> THEN <<>>
    ELSE LET account == FindAccount(accounts, Head(entries).accountId)
             totalRequired == Head(entries).total
             shortfall == Max(0, totalRequired - account.balance)
         IN  (IF IsAccount(account)
              THEN <<[account |-> account.id, name |-> account.name,
                      totalRequired |-> totalRequired, balance |-> account.balance,
                      shortfall |-> shortfall, hasInsufficientBalance |-> shortfall > 0]>>
              ELSE <<>>)
             \o Summaries(Tail(entries), accounts)

\* the comparator of the sort: a shortfall first, then the name of the account (the
\* names of the model are A1 and A2, in this order)
SummaryBefore(a, b) ==
    IF a.hasInsufficientBalance # b.hasInsufficientBalance THEN a.hasInsufficientBalance
    ELSE a.name = "A1" /\ b.name = "A2"

RECURSIVE InsertSummary(_, _)
InsertSummary(sorted, summary) ==
    IF sorted = <<>> THEN <<summary>>
    ELSE IF SummaryBefore(summary, Head(sorted)) THEN <<summary>> \o sorted
    ELSE <<Head(sorted)>> \o InsertSummary(Tail(sorted), summary)

RECURSIVE SortSummaries(_)
SortSummaries(summaries) ==
    IF summaries = <<>> THEN <<>>
    ELSE InsertSummary(SortSummaries(SubSeq(summaries, 1, Len(summaries) - 1)),
                       summaries[Len(summaries)])

\* accountSummaries of BalanceSummary
accountSummaries(payments, accounts, orderKind) ==
    IF orderKind # "BUY" \/ Len(payments) = 0 THEN <<>>
    ELSE SortSummaries(Summaries(AccountPayments(payments, 1, <<>>), accounts))

hasAnyInsufficientBalance(summaries) ==
    \E index \in DOMAIN summaries : summaries[index].hasInsufficientBalance

SummaryInit ==
    /\ bType \in {"BUY", "SELL"}
    /\ bAccounts \in {BalanceAccounts(b) : b \in {0, 2}}
    /\ bPayments \in SeqsUpTo(BalancePayments, MaxBalancePayments)
    /\ bResult = <<>>
    /\ entityOrders = <<>> /\ SettleIdle
    /\ PricingOff /\ StockOff /\ FormOff /\ FifoOff /\ ExtraOff

\* the payment step is rendered with the balance summary, and Continue validates
CheckBalances ==
    /\ bResult = <<>>
    /\ bResult' = [validation |-> validateAccountBalances(bPayments, bAccounts, bType),
                   summaries |-> accountSummaries(bPayments, bAccounts, bType)]
    /\ UNCHANGED <<bType, bAccounts, bPayments, settleVars, pricingVars, stockVars,
                   formVars, fifoVars, extraVars>>

SpecSummary == SummaryInit /\ [][CheckBalances]_vars

\* C29: for a BUY order validateAccountBalances reports invalid exactly when
\* BalanceSummary shows an insufficient balance for some account.
C29_BalanceChecksAgree ==
    (bResult # <<>> /\ bType = "BUY") =>
        (~bResult.validation.isValid <=> hasAnyInsufficientBalance(bResult.summaries))

\* C29, one direction: a payment that validateAccountBalances rejects shows as a
\* shortfall in BalanceSummary.
C29_InvalidShowsShortfall ==
    (bResult # <<>> /\ bType = "BUY" /\ ~bResult.validation.isValid) =>
        hasAnyInsufficientBalance(bResult.summaries)

RECURSIVE SumOfAmounts(_)
SumOfAmounts(charges) ==
    IF charges = <<>> THEN 0 ELSE Head(charges).amount + SumOfAmounts(Tail(charges))

\* the total a payload implies, in hundredths: max(sum of quantity * rate of its
\* products - discount + tax + sum of the amounts of its charges, 0)
PayloadTotal(payload) ==
    Max(Hundredths(calculateSubTotal(payload.products) - payload.discount + payload.tax
                   + SumOfAmounts(payload.charges)), 0)

\* C30: the total implied by the payload of a submission is the grand total the form
\* computed and displayed for the cart that was submitted.
C30_PayloadMatchesTotal ==
    \A i \in Untouched :
        PayloadTotal(pending[i].payload) = Calculations(formName, pending[i].cart).grandTotal

\* C30 for the carts all of whose lines have a product and a variant
C30_PayloadMatchesTotalSelectedLines ==
    \A i \in Untouched :
        (\A k \in DOMAIN pending[i].cart.products :
             FullySpecified(pending[i].cart.products[k])) =>
            PayloadTotal(pending[i].payload)
                = Calculations(formName, pending[i].cart).grandTotal

=============================================================================
